---- MODULE Spec2Model ----
(***************************************************************************)
(* Telemetry decoding and command encoding of the bike companion pages.    *)
(*                                                                         *)
(* A frame (the DataView of one notification) is a sequence of bytes; the  *)
(* byte at offset o of the code is element o + 1 of the sequence.          *)
(* Physical values are kept exactly, as integers counting hundredths of    *)
(* the unit (25.0 km/h is 2500, 80.0 rpm is 8000, 150 W is 15000), so that *)
(* every scale factor of the code (x0.01, x0.5, /10, /100) is exact.       *)
(* A field a record does not hold is absent from the record's DOMAIN.      *)
(***************************************************************************)
EXTENDS Integers, Sequences, FiniteSets, TLC

VARIABLES
    page,            \* which page is mounted
    flagsWord,       \* the flags word the connected bike puts in its frames
    now,             \* Date.now(), in milliseconds
    lastFrame,       \* the DataView of the last notification handled
    metrics,         \* the page's metrics state
    metricsHistory,  \* the page's metricsHistory state
    lastParsedData,  \* the debug page's lastParsedData state
    closure,         \* what the registered listener closed over at connect
    listening,       \* a characteristicvaluechanged listener is registered on
                     \* the indoor bike data characteristic of a live connection
    caught,          \* the last handler run ended in its catch block
    escaped,         \* an exception left the last handler run
    device,          \* useBluetoothDevice: device is non-null
    bikeFeatures,         \* the page's bikeFeatures state
    bikeCharacteristics,  \* the page's bikeCharacteristics state
    isWorkoutActive,      \* the page's isWorkoutActive state
    resistanceLevel,      \* the page's resistanceLevel state
    connectionError,      \* the page's connectionError state
    workoutTimerRef,      \* workoutTimerRef.current
    intervals,            \* the setInterval timers not yet cleared
    lastCommandRef,       \* lastCommandRef.current
    written,              \* the values passed to controlPoint.writeValue, in order
    pendingWrites,        \* the writeValue promises not yet settled
    pendingAdjusts,       \* the debounced calls whose wait has not yet run out
    peripheral,      \* what the bike of the last setup answers to the probes
    started,         \* the characteristics of the page's bikeCharacteristics
                     \* on which startNotifications has resolved
    leaked,          \* the characteristics of sessions cleaned up on which
                     \* startNotifications resolved and stopNotifications
                     \* was never called
    connectPc,       \* ControlPage.handleConnect: the await it has reached
    controlCharRef,  \* ControlPage: controlCharRef.current
    connected,       \* ControlPage: the GATT connection it opened is up
    rendered,        \* ControlPage: the last render saw controlCharRef.current set
    level,           \* ControlPage: the level state
    isRunning,       \* ControlPage: the isRunning state
    hookPc,          \* useBluetoothDevice.connect as the monitor page calls
                     \* it: the await it has reached
    error,           \* useBluetoothDevice on the monitor page: error, named
                     \* by what set it
    isConnecting     \* useBluetoothDevice on the monitor page: isConnecting

\* the state of the notification side of a page
telemetry == <<lastFrame, metrics, metricsHistory, lastParsedData, caught, escaped>>

\* the state of the command side of a page
control == <<isWorkoutActive, resistanceLevel, connectionError, workoutTimerRef,
             intervals, lastCommandRef, written, pendingWrites, pendingAdjusts>>

\* the command side but for the error shown
control_but_error == <<isWorkoutActive, resistanceLevel, workoutTimerRef,
                       intervals, lastCommandRef, written, pendingWrites,
                       pendingAdjusts>>

\* the state of the connection
session == <<device, bikeFeatures, bikeCharacteristics, closure, listening>>

\* the subscriptions of the connection
link == <<peripheral, started, leaked>>

\* the state of the control page
controlPage == <<connectPc, connected, controlCharRef, rendered, level, isRunning>>

\* the state of useBluetoothDevice but for device, followed on the monitor
\* page
hook == <<hookPc, error, isConnecting>>

vars == <<page, flagsWord, now, telemetry, control, session, link, controlPage,
          hook>>

-----------------------------------------------------------------------------
(* Bounds of the model *)

\* notifications delivered while the page is mounted
MaxNotifications == 2

\* writeValue calls issued while the page is mounted
MaxWrites == 2

\* writeValue promises, and debounced calls, outstanding at a time
MaxPending == 1

\* steps of the clock while the page is mounted
MaxTicks == 6

\* clicks on the Start/Stop button whose writes are awaited at a time
MaxClicks == 2

\* notifications of a bike that streams the same frame once a period
MaxStream == 302

-----------------------------------------------------------------------------
(* Values *)

\* null, for a state that holds a record or a number otherwise
NULL == [null |-> TRUE]

\* connectionError when it is null
NoError == "null"

\* workoutTimerRef.current when it is null (timer ids start at 1)
NoTimer == 0

\* lastFrame before the first notification
NoFrame == <<-1>>

\* Date.now() when the page is mounted
T0 == 1000

\* the bike notifies at 1 Hz
NotifyPeriod == 1000

-----------------------------------------------------------------------------
(* DataView *)

Bit(flags, n) == (flags \div (2 ^ n)) % 2 = 1

\* a read of width bytes at offset throws RangeError unless it lies in the view
InBounds(dataView, offset, width) == offset >= 0 /\ offset + width <= Len(dataView)

getUint8(dataView, offset) == dataView[offset + 1]

\* getUint16(offset, true): little-endian
getUint16(dataView, offset) == dataView[offset + 1] + 256 * dataView[offset + 2]

\* getInt16(offset, true): little-endian two's complement
getInt16(dataView, offset) ==
    LET u == dataView[offset + 1] + 256 * dataView[offset + 2]
    IN  IF u >= 32768 THEN u - 65536 ELSE u

\* new Uint8Array([...]): each element is taken modulo 256
ToUint8(n) == n % 256

\* raw * num / den, in hundredths
Scaled(raw, num, den) == (raw * num * 100) \div den

-----------------------------------------------------------------------------
(* Dialect A: the bitfield-indexed Indoor Bike Data handlers *)

\* the locals of a handler run: the cursor, the three values, and whether a
\* DataView read has thrown
Locals(speed, cadence, power) ==
    [offset |-> 2, speed |-> speed, cadence |-> cadence, power |-> power,
     thrown |-> FALSE]

\* if (flags & bit) { field = dataView.getUint16(offset, true) * num/den; offset += 2 }
ReadUint16(s, present, dataView, field, num, den) ==
    IF s.thrown \/ ~present THEN s
    ELSE IF ~InBounds(dataView, s.offset, 2) THEN [s EXCEPT !.thrown = TRUE]
    ELSE [s EXCEPT ![field] = Scaled(getUint16(dataView, s.offset), num, den),
                   !.offset = @ + 2]

\* if (flags & bit) { field = dataView.getInt16(offset, true); offset += 2 }
ReadInt16(s, present, dataView, field) ==
    IF s.thrown \/ ~present THEN s
    ELSE IF ~InBounds(dataView, s.offset, 2) THEN [s EXCEPT !.thrown = TRUE]
    ELSE [s EXCEPT ![field] = Scaled(getInt16(dataView, s.offset), 1, 1),
                   !.offset = @ + 2]

\* if (flags & bit) { offset += width }
Skip(s, present, width) ==
    IF s.thrown \/ ~present THEN s ELSE [s EXCEPT !.offset = @ + width]

\* MonitorDecode with the power field read by getUint16 instead of getInt16
MonitorDecodeUnsignedPower(dataView) ==
    IF ~InBounds(dataView, 0, 2) THEN [Locals(0, 0, 0) EXCEPT !.thrown = TRUE]
    ELSE
    LET flags == getUint16(dataView, 0)
        s0 == Locals(0, 0, 0)
        s1 == ReadUint16(s0, Bit(flags, 0), dataView, "speed", 1, 100)
        s2 == Skip(s1, Bit(flags, 1), 2)
        s3 == ReadUint16(s2, Bit(flags, 2), dataView, "cadence", 1, 2)
        s4 == Skip(s3, Bit(flags, 3), 2)
        s5 == Skip(s4, Bit(flags, 4), 3)
        s6 == Skip(s5, Bit(flags, 5), 2)
        s7 == ReadUint16(s6, Bit(flags, 6), dataView, "power", 1, 1)
    IN  s7

\* MonitorPage.handleBikeData, the try block up to the console.log: the locals
\* after the last flag test
MonitorDecode(dataView) ==
    IF ~InBounds(dataView, 0, 2) THEN [Locals(0, 0, 0) EXCEPT !.thrown = TRUE]
    ELSE
    LET flags == getUint16(dataView, 0)
        s0 == Locals(0, 0, 0)
        s1 == ReadUint16(s0, Bit(flags, 0), dataView, "speed", 1, 100)
        s2 == Skip(s1, Bit(flags, 1), 2)
        s3 == ReadUint16(s2, Bit(flags, 2), dataView, "cadence", 1, 2)
        s4 == Skip(s3, Bit(flags, 3), 2)
        s5 == Skip(s4, Bit(flags, 4), 3)
        s6 == Skip(s5, Bit(flags, 5), 2)
        s7 == ReadInt16(s6, Bit(flags, 6), dataView, "power")
    IN  s7

\* MonitorPage.parseBikeData (defined on the page, called nowhere)
parseBikeData(value) ==
    IF ~InBounds(value, 0, 2) THEN [Locals(0, 0, 0) EXCEPT !.thrown = TRUE]
    ELSE
    LET flags == getUint16(value, 0)
        s0 == Locals(0, 0, 0)
        s1 == ReadUint16(s0, Bit(flags, 0), value, "speed", 1, 100)
        s2 == Skip(s1, Bit(flags, 1), 2)
        s3 == ReadUint16(s2, Bit(flags, 2), value, "cadence", 1, 2)
        s4 == ReadInt16(s3, Bit(flags, 3), value, "power")
    IN  s4

\* TrainingPage.handleBikeData of the bitfield version of the training page:
\* the locals start from the metrics the listener closed over
TrainingDecodeA(dataView, closed) ==
    IF ~InBounds(dataView, 0, 2)
    THEN [Locals(closed.speed, closed.cadence, closed.power) EXCEPT !.thrown = TRUE]
    ELSE
    LET flags == getUint16(dataView, 0)
        s0 == Locals(closed.speed, closed.cadence, closed.power)
        s1 == ReadUint16(s0, Bit(flags, 0), dataView, "speed", 1, 100)
        s2 == ReadUint16(s1, Bit(flags, 2), dataView, "cadence", 1, 2)
        s3 == ReadInt16(s2, Bit(flags, 6), dataView, "power")
    IN  s3

-----------------------------------------------------------------------------
(* The bike: the frames a session delivers *)

\* flags words with any of the bits 0..6, the bits the handlers test
FlagWords == 0 .. 127

\* little-endian bytes of v
Bytes(v, width) == [i \in 1 .. width |-> (v \div (256 ^ (i - 1))) % 256]

\* the field of flag bit n is 3 bytes for the 24-bit total distance, else 2
FieldWidth(n) == IF n = 4 THEN 3 ELSE 2

\* Raw field values the bike sends.  Pattern 1 is the reference ride
\* (speed 2500, cadence 160, power 150, every field different); pattern 2
\* holds the extreme raw values (0xFFFF, 0x8000).
Patterns == {1, 2}

RawField(pattern, n) ==
    IF pattern = 1
    THEN CASE n = 0 -> 2500
           [] n = 1 -> 1111
           [] n = 2 -> 160
           [] n = 3 -> 222
           [] n = 4 -> 197121
           [] n = 5 -> 7
           [] n = 6 -> 150
           [] OTHER -> 9
    ELSE CASE n = 0 -> 65535
           [] n = 2 -> 65535
           [] n = 4 -> 16777215
           [] n = 6 -> 65535
           [] OTHER -> 32768

RECURSIVE FieldBytes(_, _, _)
\* the fields of the flagged bits n..6, in flag-bit order
FieldBytes(flags, pattern, n) ==
    IF n > 6 THEN <<>>
    ELSE (IF Bit(flags, n) THEN Bytes(RawField(pattern, n), FieldWidth(n)) ELSE <<>>)
         \o FieldBytes(flags, pattern, n + 1)

\* a complete Indoor Bike Data frame: the flags word, then the flagged fields
EncodeA(flags, pattern) == Bytes(flags, 2) \o FieldBytes(flags, pattern, 0)

\* the first Len - cut bytes of a frame
Truncate(frame, cut) ==
    IF cut >= Len(frame) THEN <<>> ELSE SubSeq(frame, 1, Len(frame) - cut)

\* bytes missing at the end of a frame that was cut short
CutSet == {0, 1, 2}

\* the frames a bike with this flags word delivers: complete, cut short in
\* its last field, or cut inside the flags word
FramesA(flags) ==
    {Truncate(EncodeA(flags, p), cut) : p \in Patterns, cut \in CutSet}
        \cup {<<>>, <<flags % 256>>}

-----------------------------------------------------------------------------
(* State of the pages *)

\* useState<BikeMetrics>({speed: 0, cadence: 0, power: 0, timestamp: Date.now()})
InitialMetricsA == [speed |-> 0, cadence |-> 0, power |-> 0, timestamp |-> T0]

\* const MAX_HISTORY_POINTS = 50 of the bitfield version of the training page
MAX_HISTORY_POINTS_A == 50

\* seq.slice(0, n): a history that kept its oldest entries
SliceFirst(seq, n) ==
    IF Len(seq) <= n THEN seq ELSE SubSeq(seq, 1, n)

\* seq.slice(-n)
SliceLast(seq, n) ==
    IF Len(seq) <= n THEN seq ELSE SubSeq(seq, Len(seq) - n + 1, Len(seq))

-----------------------------------------------------------------------------
(* Dialect A notifications *)

\* MonitorPage.handleBikeData: a throwing read leaves the try block before
\* setMetrics; otherwise setMetrics(prev => ({...prev, speed, cadence, power}))
MonitorHandleBikeData(dataView) ==
    LET s == MonitorDecode(dataView)
    IN  /\ metrics' = IF s.thrown THEN metrics
                      ELSE [metrics EXCEPT !.speed = s.speed,
                                           !.cadence = s.cadence,
                                           !.power = s.power]
        /\ caught' = s.thrown
        /\ escaped' = FALSE
        /\ UNCHANGED <<metricsHistory, lastParsedData>>

\* TrainingPage.handleBikeData (bitfield version): setMetrics(newMetrics) and
\* the history append, or the catch block
TrainingHandleBikeDataA(dataView, timestamp) ==
    LET s == TrainingDecodeA(dataView, closure.metrics)
        newMetrics == [speed |-> s.speed, cadence |-> s.cadence,
                       power |-> s.power, timestamp |-> timestamp]
    IN  /\ metrics' = IF s.thrown THEN metrics ELSE newMetrics
        /\ metricsHistory' =
              IF s.thrown THEN metricsHistory
              ELSE SliceLast(Append(metricsHistory, newMetrics), MAX_HISTORY_POINTS_A)
        /\ caught' = s.thrown
        /\ escaped' = FALSE
        /\ UNCHANGED lastParsedData

\* the bike may still notify
MayNotify == now - T0 < MaxNotifications * NotifyPeriod

\* a characteristicvaluechanged event on the monitor page
NotifyMonitor ==
    /\ page = "monitor"
    /\ listening
    /\ MayNotify
    /\ \E frame \in FramesA(flagsWord) :
          /\ lastFrame' = frame
          /\ MonitorHandleBikeData(frame)
    /\ now' = now + NotifyPeriod
    /\ UNCHANGED <<page, flagsWord, hook, link, controlPage, control, session>>

\* a characteristicvaluechanged event on the bitfield training page
NotifyTrainingA ==
    /\ page = "trainingA"
    /\ listening
    /\ MayNotify
    /\ \E frame \in FramesA(flagsWord) :
          /\ lastFrame' = frame
          /\ TrainingHandleBikeDataA(frame, now + NotifyPeriod)
    /\ now' = now + NotifyPeriod
    /\ UNCHANGED <<page, flagsWord, hook, link, controlPage, control, session>>

\* no characteristic is subscribed
InitLink ==
    /\ peripheral = NULL
    /\ started = {}
    /\ leaked = {}

\* the control page as it is mounted
InitControlPage ==
    /\ connectPc = "idle"
    /\ controlCharRef = NULL
    /\ connected = FALSE
    /\ rendered = FALSE
    /\ level = 1
    /\ isRunning = FALSE

\* useBluetoothDevice as it is mounted
InitHook ==
    /\ hookPc = "idle"
    /\ error = NoError
    /\ isConnecting = FALSE

\* the command side of a page that has just been mounted
InitControl ==
    /\ isWorkoutActive = FALSE
    /\ resistanceLevel = 1
    /\ connectionError = NoError
    /\ workoutTimerRef = NoTimer
    /\ intervals = {}
    /\ lastCommandRef = 0
    /\ written = <<>>
    /\ pendingWrites = <<>>
    /\ pendingAdjusts = {}

\* A Dialect A page whose first connection has just been set up: the
\* listener was registered by the render the page was mounted with.
InitA ==
    /\ page \in {"monitor", "trainingA"}
    /\ flagsWord \in FlagWords
    /\ now = T0
    /\ lastFrame = NoFrame
    /\ metrics = InitialMetricsA
    /\ metricsHistory = <<>>
    /\ lastParsedData = NULL
    /\ closure = [metrics |-> InitialMetricsA, isWorkoutActive |-> FALSE]
    /\ listening = TRUE
    /\ caught = FALSE
    /\ escaped = FALSE
    /\ device = TRUE
    /\ bikeFeatures = NULL
    /\ bikeCharacteristics = NULL
    /\ InitControl
    /\ InitLink
    /\ InitControlPage
    /\ InitHook

NextA == NotifyMonitor \/ NotifyTrainingA

SpecA == InitA /\ [][NextA]_vars

-----------------------------------------------------------------------------
(* Claims about Dialect A (checked under SpecA) *)

\* a notification has been handled
Handled == lastFrame # NoFrame

\* the flags word of a frame that holds one
FlagsOf(frame) == frame[1] + 256 * frame[2]

RECURSIVE WidthsBelow(_, _)
\* the summed widths of the flagged fields with a bit lower than n: 3 bytes
\* for bit 4, 2 bytes for the others
WidthsBelow(flags, n) ==
    IF n = 0 THEN 0
    ELSE WidthsBelow(flags, n - 1)
         + (IF Bit(flags, n - 1) THEN (IF n - 1 = 4 THEN 3 ELSE 2) ELSE 0)

\* where the field of flag bit n lies in a frame with these flags
FieldOffset(flags, n) == 2 + WidthsBelow(flags, n)

\* the field of bit n is flagged and lies wholly inside the frame
Fits(frame, n) ==
    /\ Len(frame) >= 2
    /\ Bit(FlagsOf(frame), n)
    /\ FieldOffset(FlagsOf(frame), n) + 2 <= Len(frame)

\* the unsigned little-endian 16-bit raw value of the field of bit n
RawAt(frame, n) ==
    frame[FieldOffset(FlagsOf(frame), n) + 1]
        + 256 * frame[FieldOffset(FlagsOf(frame), n) + 2]

\* speed = raw x 0.01, cadence = raw x 0.5, power = signed raw, in hundredths
ExpectedSpeed(frame) == RawAt(frame, 0)
ExpectedCadence(frame) == RawAt(frame, 2) * 50
ExpectedPower(frame) ==
    (IF RawAt(frame, 6) >= 32768 THEN RawAt(frame, 6) - 65536 ELSE RawAt(frame, 6)) * 100

\* the reference frame: flags 0x0045, speed 2500, cadence 160, power 150
ReferenceFrameA == <<69, 0, 196, 9, 160, 0, 150, 0>>

\* C1: on every Dialect A page, a handler run that decodes a frame reads each
\* field it decodes at offset 2 plus the widths of all lower flagged fields
\* (fields it does not use are skipped); flags 0x0045 with 2500, 160, 150
\* decodes to speed 25.0, cadence 80.0, power 150.
C1_FieldsAtFlagOffsets ==
    (Handled /\ ~caught /\ ~escaped) =>
        /\ Fits(lastFrame, 0) => metrics.speed = ExpectedSpeed(lastFrame)
        /\ Fits(lastFrame, 2) => metrics.cadence = ExpectedCadence(lastFrame)
        /\ Fits(lastFrame, 6) => metrics.power = ExpectedPower(lastFrame)
        /\ lastFrame = ReferenceFrameA =>
              /\ metrics.speed = 2500
              /\ metrics.cadence = 8000
              /\ metrics.power = 15000

\* the flag bit of each measurement field a Dialect A record can hold
FieldBit == [speed |-> 0, cadence |-> 2, power |-> 6]

\* C2: the record a Dialect A handler delivers holds a measurement field if
\* and only if the field's bit is set in the frame's flags word.
C2_FieldPresentIffFlagged ==
    (Handled /\ ~caught /\ ~escaped) =>
        \A f \in DOMAIN FieldBit :
            (f \in DOMAIN metrics) <=> Bit(FlagsOf(lastFrame), FieldBit[f])

\* a frame that ends inside, or before, one of its flagged fields
CutShort(frame) ==
    /\ Len(frame) >= 2
    /\ Len(frame) < FieldOffset(FlagsOf(frame), 7)

\* C3: on the monitor page a frame too short for one of its flagged fields is
\* handled without an exception leaving the handler, and the record delivered
\* holds the fields that fit before the truncation point.
C3_TruncatedFrameKeepsFittingFields ==
    (page = "monitor" /\ Handled /\ CutShort(lastFrame)) =>
        /\ ~escaped
        /\ Fits(lastFrame, 0) => metrics.speed = ExpectedSpeed(lastFrame)
        /\ Fits(lastFrame, 2) => metrics.cadence = ExpectedCadence(lastFrame)
        /\ Fits(lastFrame, 6) => metrics.power = ExpectedPower(lastFrame)

\* C4: the monitor page scales instantaneous speed as the unsigned
\* little-endian 16-bit raw x 0.01 km/h, instantaneous cadence as raw x 0.5 rpm
\* and takes instantaneous power as the signed 16-bit raw in watts (raw 0xFFFF
\* is -1 W); parseBikeData scales the fields it reads the same way.
C4_ScalingA ==
    (page = "monitor" /\ Handled /\ ~caught) =>
        /\ Fits(lastFrame, 0) => metrics.speed = ExpectedSpeed(lastFrame)
        /\ Fits(lastFrame, 2) => metrics.cadence = ExpectedCadence(lastFrame)
        /\ Fits(lastFrame, 6) => metrics.power = ExpectedPower(lastFrame)
        /\ (Fits(lastFrame, 6) /\ RawAt(lastFrame, 6) = 65535) => metrics.power = -100
        /\ FlagsOf(lastFrame) \in {1, 4, 5} =>
              /\ Fits(lastFrame, 0) => parseBikeData(lastFrame).speed = ExpectedSpeed(lastFrame)
              /\ Fits(lastFrame, 2) => parseBikeData(lastFrame).cadence = ExpectedCadence(lastFrame)

\* C4 witness: the monitor page has decoded a frame whose speed, cadence and
\* power fields all hold the raw value 0xFFFF
C4_Witness ==
    /\ page = "monitor" /\ Handled /\ ~caught
    /\ Fits(lastFrame, 0) /\ Fits(lastFrame, 2) /\ Fits(lastFrame, 6)
    /\ RawAt(lastFrame, 0) = 65535 /\ RawAt(lastFrame, 6) = 65535
    /\ metrics.power = -100 /\ metrics.speed = 65535

-----------------------------------------------------------------------------
(* Dialect B: lib/bikeFeatures.ts of the iConsole training page *)

\* a command table in which STOP was copied from START and kept its checksum
CONTROL_COMMANDS_StaleChecksum ==
    [PING    |-> <<240, 160, 1, 1, 146>>,
     INIT_A0 |-> <<240, 160, 2, 2, 148>>,
     STATUS  |-> <<240, 161, 1, 1, 147>>,
     INIT_A3 |-> <<240, 163, 1, 1, 1, 150>>,
     START   |-> <<240, 165, 1, 1, 2, 153>>,
     STOP    |-> <<240, 165, 1, 1, 4, 153>>,
     READ    |-> <<240, 162, 1, 1, 148>>]

\* export const CONTROL_COMMANDS: every member of the object
CONTROL_COMMANDS ==
    [PING    |-> <<240, 160, 1, 1, 146>>,
     INIT_A0 |-> <<240, 160, 2, 2, 148>>,
     STATUS  |-> <<240, 161, 1, 1, 147>>,
     INIT_A3 |-> <<240, 163, 1, 1, 1, 150>>,
     START   |-> <<240, 165, 1, 1, 2, 153>>,
     STOP    |-> <<240, 165, 1, 1, 4, 155>>,
     READ    |-> <<240, 162, 1, 1, 148>>]

\* a record with no field: const result: any = {}
EmptyRecord == [k \in {} |-> 0]

\* {...a, ...b}
Spread(a, b) ==
    [k \in DOMAIN a \cup DOMAIN b |-> IF k \in DOMAIN b THEN b[k] ELSE a[k]]

\* if (dataView.byteLength >= 19)
FULL_PACKET_LENGTH == 19

\* a decoder that combines the raw bytes and subtracts 1 from the result
FullPacketFieldsLateCorrection(dataView) ==
    LET b(k) == getUint8(dataView, k)
        pair(k) == b(k) * 100 + b(k + 1) - 1
    IN  [time      |-> Scaled(((b(2) * 24 + b(3)) * 60 + b(4)) * 60 + b(5) - 1, 1, 1),
         speed     |-> Scaled(pair(6), 1, 10),
         rpm       |-> Scaled(pair(8), 1, 1),
         distance  |-> Scaled(pair(10), 1, 10),
         calories  |-> Scaled(pair(12), 1, 1),
         heartRate |-> Scaled(pair(14), 1, 1),
         power     |-> Scaled(pair(16), 1, 10),
         level     |-> Scaled(b(18) - 1, 1, 1)]

\* a decoder that takes the bytes as they are
FullPacketFieldsNoCorrection(dataView) ==
    LET b(k) == getUint8(dataView, k)
        pair(k) == b(k) * 100 + b(k + 1)
    IN  [time      |-> Scaled(((b(2) * 24 + b(3)) * 60 + b(4)) * 60 + b(5), 1, 1),
         speed     |-> Scaled(pair(6), 1, 10),
         rpm       |-> Scaled(pair(8), 1, 1),
         distance  |-> Scaled(pair(10), 1, 10),
         calories  |-> Scaled(pair(12), 1, 1),
         heartRate |-> Scaled(pair(14), 1, 1),
         power     |-> Scaled(pair(16), 1, 10),
         level     |-> Scaled(b(18), 1, 1)]

\* the body of the byteLength test of parseIndoorBikeData: each byte has 1
\* subtracted as it is read, at the offset the cursor has reached
FullPacketFields(dataView) ==
    LET day    == getUint8(dataView, 2) - 1
        hour   == getUint8(dataView, 3) - 1
        min    == getUint8(dataView, 4) - 1
        sec    == getUint8(dataView, 5) - 1
        speed1 == getUint8(dataView, 6) - 1
        speed2 == getUint8(dataView, 7) - 1
        rpm1   == getUint8(dataView, 8) - 1
        rpm2   == getUint8(dataView, 9) - 1
        dist1  == getUint8(dataView, 10) - 1
        dist2  == getUint8(dataView, 11) - 1
        cal1   == getUint8(dataView, 12) - 1
        cal2   == getUint8(dataView, 13) - 1
        hr1    == getUint8(dataView, 14) - 1
        hr2    == getUint8(dataView, 15) - 1
        power1 == getUint8(dataView, 16) - 1
        power2 == getUint8(dataView, 17) - 1
    IN  [time      |-> Scaled(((day * 24 + hour) * 60 + min) * 60 + sec, 1, 1),
         speed     |-> Scaled(speed1 * 100 + speed2, 1, 10),
         rpm       |-> Scaled(rpm1 * 100 + rpm2, 1, 1),
         distance  |-> Scaled(dist1 * 100 + dist2, 1, 10),
         calories  |-> Scaled(cal1 * 100 + cal2, 1, 1),
         heartRate |-> Scaled(hr1 * 100 + hr2, 1, 1),
         power     |-> Scaled(power1 * 100 + power2, 1, 10),
         level     |-> Scaled(getUint8(dataView, 18) - 1, 1, 1)]

\* parseIndoorBikeData: the flags read throws on a view shorter than 2 bytes
\* and the catch block returns {}
parseIndoorBikeData(dataView) ==
    IF ~InBounds(dataView, 0, 2) THEN EmptyRecord
    ELSE IF Len(dataView) >= FULL_PACKET_LENGTH THEN FullPacketFields(dataView)
    ELSE EmptyRecord

\* useState<WorkoutMetrics>({time: 0, ..., timestamp: Date.now()})
InitialMetrics ==
    [time |-> 0, speed |-> 0, cadence |-> 0, power |-> 0, heartRate |-> 0,
     distance |-> 0, calories |-> 0, timestamp |-> T0]

\* const MAX_HISTORY_POINTS = 300
MAX_HISTORY_POINTS == 300

-----------------------------------------------------------------------------
(* The debug page's decoder *)

HexDigits == <<"0", "1", "2", "3", "4", "5", "6", "7", "8", "9",
               "a", "b", "c", "d", "e", "f">>

\* b.toString(16).padStart(2, '0')
Hex2(b) == <<HexDigits[(b \div 16) + 1], HexDigits[(b % 16) + 1]>>

\* Array.from(bytes).map(hex).join(' '), kept as the sequence of byte texts
HexDump(dataView) == [i \in 1 .. Len(dataView) |-> Hex2(dataView[i])]

\* flags.toString(2).padStart(16, '0'), kept as the sequence of its 16 digits
Bin16(flags) == [i \in 1 .. 16 |-> (flags \div (2 ^ (16 - i))) % 2]

\* DebugPage.parseIndoorBikeData: null when the flags read throws
DebugParseIndoorBikeData(dataView) ==
    IF ~InBounds(dataView, 0, 2) THEN NULL
    ELSE
    LET flags == getUint16(dataView, 0)
        parsed == [flags |-> Bin16(flags), rawFlags |-> flags]
        counted ==
            IF Len(dataView) >= 4 /\ Len(dataView) = 41
            THEN Spread(parsed, [counter |-> getUint8(dataView, 37)])
            ELSE IF Len(dataView) >= 4 /\ Len(dataView) = 30
            THEN Spread(parsed, [counter |-> getUint8(dataView, 26)])
            ELSE parsed
    IN  Spread(counted, [rawBytes |-> HexDump(dataView)])

-----------------------------------------------------------------------------
(* The iConsole bike: the frames a session delivers *)

\* Payload bytes of offsets 2..18 (day, hour, minute, second, two bytes each
\* of speed, rpm, distance, calories, heart rate, power, then the level).
\* 1: a ride (0 d 1 h 30 min 45 s, 25.5 km/h, 80 rpm, 12.3 km, 321 kcal,
\*    140 bpm, 150.0 W, level 7); 2: time bytes 2, every other byte 1;
\* 3: every byte 1; 4: every byte 0.
PatternsB == {1, 2, 3, 4}

PayloadB(pattern) ==
    CASE pattern = 1 -> <<1, 2, 31, 46, 3, 56, 1, 81, 2, 24, 4, 22, 2, 41, 16, 1, 8>>
      [] pattern = 2 -> <<2, 2, 2, 2, 1, 1, 1, 1, 1, 1, 1, 1, 1, 1, 1, 1, 1>>
      [] pattern = 3 -> [i \in 1 .. 17 |-> 1]
      [] OTHER       -> [i \in 1 .. 17 |-> 0]

\* total lengths of the frames: none, cut inside the flags, flags only, one
\* byte short of a full packet, a full packet, longer, and the 30 and 41 byte
\* messages of the debug page
LengthsB == {0, 1, 2, 18, 19, 20, 30, 41}

\* a frame of the given length: flags 0x0000, the payload, then a counter byte
\* repeated
EncodeB(pattern, length) ==
    [i \in 1 .. length |->
        IF i <= 2 THEN 0
        ELSE IF i <= 19 THEN PayloadB(pattern)[i - 2]
        ELSE 7]

\* every payload at the full packet length, the ride at every length
FramesB ==
    {EncodeB(p, FULL_PACKET_LENGTH) : p \in PatternsB}
        \cup {EncodeB(1, n) : n \in LengthsB}

-----------------------------------------------------------------------------
(* The training page: connection *)

\* What a bike answers to the probes of setupBikeFeatures: whether the
\* Fitness Machine service, the control point, the indoor bike data, the
\* cycling power and the heart rate characteristics are found.
BikeProfiles ==
    {[fitness |-> TRUE,  cp |-> TRUE,  ibd |-> TRUE,  pw |-> FALSE, hr |-> TRUE],
     [fitness |-> TRUE,  cp |-> FALSE, ibd |-> TRUE,  pw |-> TRUE,  hr |-> FALSE],
     [fitness |-> TRUE,  cp |-> TRUE,  ibd |-> FALSE, pw |-> FALSE, hr |-> FALSE],
     [fitness |-> FALSE, cp |-> FALSE, ibd |-> FALSE, pw |-> FALSE, hr |-> FALSE]}

\* every answer to the probes, with whether the control point found has a
\* write property; the bikes of the connections whose subscriptions are followed
ProbeProfiles ==
    {bike \in [fitness : BOOLEAN, cp : BOOLEAN, cpWrite : BOOLEAN, ibd : BOOLEAN,
               pw : BOOLEAN, hr : BOOLEAN] :
        /\ bike.cpWrite => bike.cp
        /\ ~bike.fitness => ~(bike.cp \/ bike.ibd \/ bike.pw \/ bike.hr)}

\* setupBikeFeatures of the iConsole lib: a probe that throws leaves its flag
\* false and its characteristic null; without the Fitness Machine service the
\* outer catch returns the defaults.  Nothing is thrown to the caller.
setupBikeFeatures(bike) ==
    [features |->
        [hasSpeedMeasurement   |-> bike.fitness /\ bike.ibd,
         hasCadenceMeasurement |-> bike.fitness /\ bike.ibd,
         hasPowerMeasurement   |-> bike.fitness /\ bike.pw,
         hasResistanceControl  |-> bike.fitness /\ bike.cp,
         minResistance |-> 1, maxResistance |-> 20,
         minPower |-> 0, maxPower |-> 1000],
     characteristics |->
        [controlPoint         |-> bike.fitness /\ bike.cp,
         indoorBikeData       |-> bike.fitness /\ bike.ibd,
         powerMeasurement     |-> bike.fitness /\ bike.pw,
         heartRateMeasurement |-> bike.fitness /\ bike.hr]]

\* startNotifications and stopNotifications of the iConsole lib take the
\* characteristics in this order, awaiting each call before the next
NotifyOrder == <<"indoorBikeData", "powerMeasurement", "heartRateMeasurement">>

NotifyNames == {NotifyOrder[i] : i \in DOMAIN NotifyOrder}

\* the place of a characteristic in that order
NotifyIndex(name) == CHOOSE i \in DOMAIN NotifyOrder : NotifyOrder[i] = name

\* the characteristics the ?.properties.notify tests let through: the ones
\* that were found (the bike's notify property is set on each of them)
NotifiableOf(characteristics) ==
    IF characteristics = NULL THEN {}
    ELSE {name \in NotifyNames : characteristics[name]}

\* startNotifications: the characteristics subscribed before the rejecting one
StartedBefore(notifiable, rejecting) ==
    {name \in notifiable : NotifyIndex(name) < NotifyIndex(rejecting)}

\* stopNotifications: the characteristics on which stopNotifications is
\* called; the first rejection leaves the function
StopCalled(notifiable, rejecting) ==
    {name \in notifiable :
        \A earlier \in notifiable :
            NotifyIndex(earlier) < NotifyIndex(name) => earlier \notin rejecting}

\* the cleanup effect on characteristics whose connection has ended: every
\* stopNotifications call rejects; what stays subscribed without a call
CleanupLeak(characteristics, subscribed) ==
    subscribed \ StopCalled(NotifiableOf(characteristics),
                            NotifiableOf(characteristics))

\* how far a connection attempt gets
ConnectOutcomes ==
    {"requestDevice rejects", "gatt.connect rejects",
     "startNotifications rejects", "connected"}

\* TrainingPage.handleConnect with useBluetoothDevice.connect, run to its end:
\* requestDevice or gatt.connect may reject, startNotifications may reject;
\* the listener registered is the handleBikeData of the render that ran
\* handleConnect, with the metrics and isWorkoutActive of that render.
\* The subscriptions (peripheral, started, leaked) are history of the calls
\* made on the characteristics; they are recorded when recording is set.
\* setBikeCharacteristics runs the cleanup effect, which clears the interval
\* workoutTimerRef names and calls stopNotifications; the effect is followed
\* when recording is set.
TrainingConnect(recording) ==
    /\ page = "training"
    /\ ~device
    /\ \E outcome \in ConnectOutcomes, rejecting \in NotifyNames,
          bike \in (IF recording THEN ProbeProfiles ELSE BikeProfiles) :
          LET setup == setupBikeFeatures(bike)
              notifiable == NotifiableOf(setup.characteristics)
              requestOk == outcome # "requestDevice rejects"
              gattOk == outcome # "gatt.connect rejects"
              notifyOk == outcome # "startNotifications rejects"
          IN  /\ IF notifyOk THEN rejecting = NotifyOrder[1]
                 ELSE IF recording THEN rejecting \in notifiable
                 ELSE notifiable # {} /\ rejecting = NotifyOrder[1]
              /\ IF ~requestOk
                 THEN /\ connectionError' = "Connection failed"
                      /\ UNCHANGED <<device, bikeFeatures, bikeCharacteristics,
                                     resistanceLevel, closure, listening, link,
                                     intervals>>
                 ELSE IF ~gattOk
                 THEN /\ device' = TRUE
                      /\ connectionError' = "Connection failed"
                      /\ UNCHANGED <<bikeFeatures, bikeCharacteristics,
                                     resistanceLevel, closure, listening, link,
                                     intervals>>
                 ELSE /\ device' = TRUE
                      /\ bikeFeatures' = setup.features
                      /\ bikeCharacteristics' = setup.characteristics
                      /\ intervals' = IF recording THEN intervals \ {workoutTimerRef}
                                    ELSE intervals
                      /\ IF recording
                         THEN /\ peripheral' = bike
                              /\ leaked' = leaked \cup
                                    CleanupLeak(bikeCharacteristics, started)
                              /\ started' =
                                    IF notifyOk THEN notifiable
                                    ELSE StartedBefore(notifiable, rejecting)
                         ELSE UNCHANGED link
                      /\ resistanceLevel' =
                            IF setup.features.maxResistance # 0
                            THEN setup.features.minResistance ELSE resistanceLevel
                      /\ IF notifyOk
                         THEN /\ listening' = setup.characteristics.indoorBikeData
                              /\ closure' =
                                    IF setup.characteristics.indoorBikeData
                                    THEN [metrics |-> metrics,
                                          isWorkoutActive |-> isWorkoutActive]
                                    ELSE closure
                              /\ UNCHANGED connectionError
                         ELSE /\ connectionError' = "Connection failed"
                              /\ UNCHANGED <<closure, listening>>
    /\ UNCHANGED <<page, flagsWord, hook, controlPage, now, telemetry, isWorkoutActive,
                   workoutTimerRef, lastCommandRef, written,
                   pendingWrites, pendingAdjusts>>

\* handleConnect where the subscriptions and the cleanup effect are not
\* followed
HandleConnect ==
    /\ TrainingConnect(FALSE)
    /\ UNCHANGED link

\* gattserverdisconnected: the hook's handleDisconnect sets device to null;
\* the page keeps bikeFeatures and bikeCharacteristics
Disconnect ==
    /\ page = "training"
    /\ device
    /\ device' = FALSE
    /\ listening' = FALSE
    /\ UNCHANGED <<page, flagsWord, hook, link, controlPage, now, telemetry, control,
                   bikeFeatures, bikeCharacteristics, closure>>

\* handleConnect where the subscriptions and the cleanup effect are followed
Negotiate ==
    /\ TrainingConnect(TRUE)
    /\ UNCHANGED controlPage

\* the training page is left: the cleanup effect clears the interval and
\* calls stopNotifications on the characteristics it holds; each call may
\* reject, and rejects when the connection has ended; the promise's catch
\* logs the rejection
Unmount ==
    /\ page = "training"
    /\ page' = "none"
    /\ intervals' = IF workoutTimerRef # NoTimer
                    THEN intervals \ {workoutTimerRef} ELSE intervals
    /\ \E rejecting \in SUBSET NotifiableOf(bikeCharacteristics) :
          /\ ~device => rejecting = NotifiableOf(bikeCharacteristics)
          /\ leaked' = leaked \cup
                (started \ StopCalled(NotifiableOf(bikeCharacteristics), rejecting))
    /\ started' = {}
    /\ listening' = FALSE
    /\ UNCHANGED <<flagsWord, hook, peripheral, controlPage, now, telemetry,
                   isWorkoutActive, resistanceLevel, connectionError,
                   workoutTimerRef, lastCommandRef, written, pendingWrites,
                   pendingAdjusts, device, bikeFeatures, bikeCharacteristics,
                   closure>>

-----------------------------------------------------------------------------
(* The monitor page: connecting through useBluetoothDevice *)

\* the Connect button of the monitor page: handleConnect clears
\* connectionError and calls the hook's connect, which sets isConnecting,
\* clears error and awaits requestDevice
MonitorConnectClick ==
    /\ page = "monitor"
    /\ ~device
    /\ ~isConnecting
    /\ hookPc = "idle"
    /\ connectionError' = NoError
    /\ isConnecting' = TRUE
    /\ error' = NoError
    /\ hookPc' = "requestDevice"
    /\ UNCHANGED <<page, flagsWord, link, controlPage, now, telemetry,
                   control_but_error, session>>

\* connect after the await of requestDevice: setDevice(device) and on to
\* gatt.connect, or the catch block (setError), finally
\* (setIsConnecting(false)) and the page's catch block (setConnectionError)
HookRequestSettles ==
    /\ page = "monitor"
    /\ hookPc = "requestDevice"
    /\ \/ /\ device' = TRUE
          /\ hookPc' = "gatt.connect"
          /\ UNCHANGED <<error, isConnecting, connectionError>>
       \/ /\ error' = "requestDevice rejected"
          /\ isConnecting' = FALSE
          /\ hookPc' = "idle"
          /\ connectionError' = "User cancelled the requestDevice() chooser."
          /\ UNCHANGED device
    /\ UNCHANGED <<page, flagsWord, link, controlPage, now, telemetry,
                   control_but_error, bikeFeatures, bikeCharacteristics,
                   closure, listening>>

\* connect after the await of gatt.connect: the server is returned and
\* finally runs, or the catch block, finally and the page's catch block;
\* device keeps what setDevice gave it
HookGattSettles ==
    /\ page = "monitor"
    /\ hookPc = "gatt.connect"
    /\ isConnecting' = FALSE
    /\ \/ /\ hookPc' = "setup"
          /\ UNCHANGED <<error, connectionError>>
       \/ /\ error' = "gatt.connect rejected"
          /\ hookPc' = "idle"
          /\ connectionError' = "Connection attempt failed."
    /\ UNCHANGED <<page, flagsWord, link, controlPage, now, telemetry,
                   control_but_error, session>>

\* the monitor page's setupBikeCharacteristics: notifications are started and
\* the listener is added, or a step of it throws; it throws when the
\* connection has ended
MonitorSetupSettles ==
    /\ page = "monitor"
    /\ hookPc = "setup"
    /\ hookPc' = "idle"
    /\ \/ /\ device
          /\ listening' = TRUE
          /\ UNCHANGED connectionError
       \/ /\ connectionError' = "Failed to set up bike characteristics"
          /\ UNCHANGED listening
    /\ UNCHANGED <<page, flagsWord, link, controlPage, now, telemetry,
                   control_but_error, device, bikeFeatures, bikeCharacteristics,
                   closure, error, isConnecting>>

\* gattserverdisconnected on the monitor page, for a connection that was up:
\* the hook's handleDisconnect
MonitorDisconnect ==
    /\ page = "monitor"
    /\ device
    /\ hookPc \in {"setup", "idle"}
    /\ error = NoError
    /\ device' = FALSE
    /\ error' = "DISCONNECTED"
    /\ listening' = FALSE
    /\ UNCHANGED <<page, flagsWord, link, controlPage, now, telemetry, control,
                   bikeFeatures, bikeCharacteristics, closure, hookPc,
                   isConnecting>>

-----------------------------------------------------------------------------
(* The training page: notifications *)

\* a handler whose summary update runs before setMetrics: the ReferenceError
\* leaves the try block with nothing delivered
TrainingHandleBikeDataSummaryFirst(dataView, timestamp) ==
    LET parsedData == parseIndoorBikeData(dataView)
        newMetrics == Spread(Spread(closure.metrics, parsedData),
                             [timestamp |-> timestamp])
    IN  /\ metrics' = IF closure.isWorkoutActive THEN metrics ELSE newMetrics
        /\ metricsHistory' =
              IF closure.isWorkoutActive THEN metricsHistory
              ELSE SliceLast(Append(metricsHistory, newMetrics), MAX_HISTORY_POINTS)
        /\ caught' = closure.isWorkoutActive
        /\ escaped' = FALSE
        /\ UNCHANGED lastParsedData

\* TrainingPage.handleBikeData: setMetrics and the history append run, then
\* the summary update evaluates `isWorkoutActive && prev.length > 0`, where
\* prev is bound nowhere: with isWorkoutActive true it throws ReferenceError
\* into the handler's catch block.
TrainingHandleBikeData(dataView, timestamp) ==
    LET parsedData == parseIndoorBikeData(dataView)
        newMetrics == Spread(Spread(closure.metrics, parsedData),
                             [timestamp |-> timestamp])
    IN  /\ metrics' = newMetrics
        /\ metricsHistory' =
              SliceLast(Append(metricsHistory, newMetrics), MAX_HISTORY_POINTS)
        /\ caught' = closure.isWorkoutActive
        /\ escaped' = FALSE
        /\ UNCHANGED lastParsedData

\* a characteristicvaluechanged event on the training page
NotifyTraining ==
    /\ page = "training"
    /\ listening
    /\ MayNotify
    /\ \E frame \in FramesB :
          /\ lastFrame' = frame
          /\ TrainingHandleBikeData(frame, now + NotifyPeriod)
    /\ now' = now + NotifyPeriod
    /\ UNCHANGED <<page, flagsWord, hook, link, controlPage, control, session>>

\* the bike may still stream
MayStream == now - T0 < MaxStream * NotifyPeriod

\* a characteristicvaluechanged event on the training page from a bike that
\* sends the frame of the ride once a period
StreamTraining ==
    /\ page = "training"
    /\ listening
    /\ MayStream
    /\ LET frame == EncodeB(1, FULL_PACKET_LENGTH)
       IN  /\ lastFrame' = frame
           /\ TrainingHandleBikeData(frame, now + NotifyPeriod)
    /\ now' = now + NotifyPeriod
    /\ UNCHANGED <<page, flagsWord, hook, link, controlPage, control, session>>

\* the same on the bitfield training page
StreamTrainingA ==
    /\ page = "trainingA"
    /\ listening
    /\ MayStream
    /\ LET frame == EncodeA(flagsWord, 1)
       IN  /\ lastFrame' = frame
           /\ TrainingHandleBikeDataA(frame, now + NotifyPeriod)
    /\ now' = now + NotifyPeriod
    /\ UNCHANGED <<page, flagsWord, hook, link, controlPage, control, session>>

\* DebugPage.handleBikeData: setLastParsedData when the decoder returns a
\* record (the log lines it adds are display only and not kept here)
DebugHandleBikeData(dataView) ==
    LET parsed == DebugParseIndoorBikeData(dataView)
    IN  /\ lastParsedData' = IF parsed # NULL THEN parsed ELSE lastParsedData
        /\ caught' = FALSE
        /\ escaped' = FALSE
        /\ UNCHANGED <<metrics, metricsHistory>>

\* a characteristicvaluechanged event on the debug page
NotifyDebug ==
    /\ page = "debug"
    /\ listening
    /\ MayNotify
    /\ \E frame \in FramesB :
          /\ lastFrame' = frame
          /\ DebugHandleBikeData(frame)
    /\ now' = now + NotifyPeriod
    /\ UNCHANGED <<page, flagsWord, hook, link, controlPage, control, session>>

-----------------------------------------------------------------------------
(* The training page: commands *)

\* debounce(..., 100)
DEBOUNCE_WAIT == 100

\* if (now - lastCommandRef.current < 500) return
MIN_COMMAND_INTERVAL == 500

\* toggleWorkout up to its await: the command is chosen by the isWorkoutActive
\* of the render that was clicked, and writeValue is called
toggleWorkout ==
    /\ page = "training"
    /\ bikeCharacteristics # NULL
    /\ bikeCharacteristics.controlPoint
    /\ Len(written) < MaxWrites
    /\ written' = Append(written,
                         IF isWorkoutActive THEN CONTROL_COMMANDS.STOP
                                            ELSE CONTROL_COMMANDS.START)
    /\ pendingWrites' = Append(pendingWrites,
                               [kind |-> "toggle", active |-> isWorkoutActive])
    /\ UNCHANGED <<page, flagsWord, hook, link, controlPage, now, telemetry, session, isWorkoutActive,
                   resistanceLevel, connectionError, workoutTimerRef, intervals,
                   lastCommandRef, pendingAdjusts>>

\* a click on the Start/Stop button once the write of the click before it
\* has settled
ToggleWorkoutClick ==
    /\ Len(pendingWrites) < MaxPending
    /\ toggleWorkout

\* a click on the Start/Stop button, also while the writes of earlier clicks
\* are still awaited: the button is disabled only without a control point
ToggleWorkoutRapidClick ==
    /\ Len(pendingWrites) < MaxClicks
    /\ toggleWorkout

\* an id setInterval has not handed out to a live timer
FreshTimer == CHOOSE id \in 1 .. (Cardinality(intervals) + 1) : id \notin intervals

\* a toggleWorkout that toggled the state before it knew the write's outcome
ToggleWorkoutSettleOptimistic(call, ok) ==
    /\ isWorkoutActive' = ~call.active
    /\ IF ok
       THEN /\ IF ~call.active
               THEN /\ workoutTimerRef' = FreshTimer
                    /\ intervals' = intervals \cup {FreshTimer}
               ELSE /\ intervals' =
                          IF workoutTimerRef # NoTimer
                          THEN intervals \ {workoutTimerRef} ELSE intervals
                    /\ UNCHANGED workoutTimerRef
            /\ UNCHANGED <<connectionError, resistanceLevel>>
       ELSE /\ connectionError' = "Failed to toggle workout"
            /\ UNCHANGED <<workoutTimerRef, intervals, resistanceLevel>>

\* toggleWorkout after its await: the write resolved (the state is toggled,
\* the timer started or cleared) or rejected (the catch block)
ToggleWorkoutSettle(call, ok) ==
    IF ok
    THEN /\ isWorkoutActive' = ~call.active
         /\ IF ~call.active
            THEN /\ workoutTimerRef' = FreshTimer
                 /\ intervals' = intervals \cup {FreshTimer}
            ELSE /\ intervals' =
                       IF workoutTimerRef # NoTimer
                       THEN intervals \ {workoutTimerRef} ELSE intervals
                 /\ UNCHANGED workoutTimerRef
         /\ UNCHANGED <<connectionError, resistanceLevel>>
    ELSE /\ connectionError' = "Failed to toggle workout"
         /\ UNCHANGED <<isWorkoutActive, workoutTimerRef, intervals, resistanceLevel>>

\* debouncedAdjustLevel after its await: setResistanceLevel(newLevel), or the
\* catch block
AdjustLevelSettle(call, ok) ==
    /\ IF ok
       THEN resistanceLevel' = call.newLevel /\ UNCHANGED connectionError
       ELSE connectionError' = "Failed to adjust resistance level"
            /\ UNCHANGED resistanceLevel
    /\ UNCHANGED <<isWorkoutActive, workoutTimerRef, intervals>>

\* the oldest writeValue promise settles; a write on a connection that has
\* ended rejects
WriteSettles ==
    /\ page = "training"
    /\ pendingWrites # <<>>
    /\ \E ok \in (IF device THEN BOOLEAN ELSE {FALSE}) :
          IF Head(pendingWrites).kind = "toggle"
          THEN ToggleWorkoutSettle(Head(pendingWrites), ok)
          ELSE AdjustLevelSettle(Head(pendingWrites), ok)
    /\ pendingWrites' = Tail(pendingWrites)
    /\ UNCHANGED <<page, flagsWord, hook, link, controlPage, now, telemetry, session,
                   lastCommandRef, written, pendingAdjusts>>

\* the levels the slider is moved to
SliderLevels(features) ==
    {features.minResistance, features.minResistance + 1, features.maxResistance}

\* the levels the resistance controls pass to debouncedAdjustLevel: the
\* slider's value, Math.max(resistanceLevel - 1, min) of the down button and
\* Math.min(resistanceLevel + 1, max) of the up button while they are enabled
RequestedLevels(features) ==
    SliderLevels(features)
        \cup (IF resistanceLevel > features.minResistance
              THEN {IF resistanceLevel - 1 > features.minResistance
                    THEN resistanceLevel - 1 ELSE features.minResistance}
              ELSE {})
        \cup (IF resistanceLevel < features.maxResistance
              THEN {IF resistanceLevel + 1 < features.maxResistance
                    THEN resistanceLevel + 1 ELSE features.maxResistance}
              ELSE {})

\* A resistance control calls debouncedAdjustLevel(newLevel): the call waits
\* DEBOUNCE_WAIT with what its render closed over.  A call on the debounced
\* function of the same render supersedes the waiting one; after a re-render
\* the function is a new one and the call waits beside the older.
AdjustRequest ==
    /\ page = "training"
    /\ device
    /\ bikeFeatures # NULL
    /\ bikeFeatures.hasResistanceControl
    /\ \E newLevel \in RequestedLevels(bikeFeatures) :
          LET call == [newLevel |-> newLevel,
                       due |-> now + DEBOUNCE_WAIT,
                       armed |-> /\ bikeCharacteristics # NULL
                                 /\ bikeCharacteristics.controlPoint
                                 /\ bikeFeatures.hasResistanceControl]
          IN  \/ /\ Cardinality(pendingAdjusts) < MaxPending
                 /\ pendingAdjusts' = pendingAdjusts \cup {call}
              \/ \E old \in pendingAdjusts :
                    pendingAdjusts' = (pendingAdjusts \ {old}) \cup {call}
    /\ UNCHANGED <<page, flagsWord, hook, link, controlPage, now, telemetry, session, isWorkoutActive,
                   resistanceLevel, connectionError, workoutTimerRef, intervals,
                   lastCommandRef, written, pendingWrites>>

\* CONTROL_COMMANDS.setResistanceLevel(newLevel): calling a member the object
\* does not have throws TypeError
setResistanceLevelCall(newLevel) ==
    IF "setResistanceLevel" \in DOMAIN CONTROL_COMMANDS
    THEN [thrown |-> FALSE, command |-> CONTROL_COMMANDS.setResistanceLevel[newLevel]]
    ELSE [thrown |-> TRUE, command |-> <<>>]

\* the body of debouncedAdjustLevel up to its await
AdjustLevelBody(call) ==
    IF ~call.armed \/ now - lastCommandRef < MIN_COMMAND_INTERVAL
    THEN UNCHANGED <<lastCommandRef, connectionError, written, pendingWrites>>
    ELSE /\ lastCommandRef' = now
         /\ IF setResistanceLevelCall(call.newLevel).thrown
            THEN /\ connectionError' = "Failed to adjust resistance level"
                 /\ UNCHANGED <<written, pendingWrites>>
            ELSE /\ written' = Append(written, setResistanceLevelCall(call.newLevel).command)
                 /\ pendingWrites' = Append(pendingWrites,
                                            [kind |-> "level", newLevel |-> call.newLevel])
                 /\ UNCHANGED connectionError

\* the wait of a debounced call has run out: its body runs
AdjustFire ==
    /\ page = "training"
    /\ \E call \in pendingAdjusts :
          /\ call.due <= now
          /\ Len(written) < MaxWrites
          /\ Len(pendingWrites) < MaxPending
          /\ pendingAdjusts' = pendingAdjusts \ {call}
          /\ AdjustLevelBody(call)
    /\ UNCHANGED <<page, flagsWord, hook, link, controlPage, now, telemetry, session, isWorkoutActive,
                   resistanceLevel, workoutTimerRef, intervals>>

\* time passes
Tick ==
    /\ now - T0 < MaxTicks * DEBOUNCE_WAIT
    /\ now' = now + DEBOUNCE_WAIT
    /\ UNCHANGED <<page, flagsWord, hook, link, controlPage, telemetry, control, session>>

\* time passes on the training page
TrainingTick ==
    /\ page = "training"
    /\ Tick

-----------------------------------------------------------------------------
(* The GATT lib: lib/bikeFeatures.ts of the bitfield training page *)

\* the value of a characteristic that is not found or whose readValue rejects
Unreadable == <<-1>>

\* getUint32(offset, false): big-endian
getUint32BigEndian(dataView, offset) ==
    16777216 * dataView[offset + 1] + 65536 * dataView[offset + 2]
        + 256 * dataView[offset + 3] + dataView[offset + 4]

\* getUint32(offset, true): little-endian
getUint32(dataView, offset) ==
    dataView[offset + 1] + 256 * dataView[offset + 2]
        + 65536 * dataView[offset + 3] + 16777216 * dataView[offset + 4]

\* the names parseMachineFeatures pushes, the name of bit n at place n + 1
FEATURE_NAMES ==
    <<"Average Speed", "Cadence", "Total Distance", "Inclination",
      "Elevation Gain", "Pace", "Step Count", "Resistance Level",
      "Stride Count", "Expended Energy", "Heart Rate", "Metabolic Equivalent",
      "Elapsed Time", "Remaining Time", "Power Measurement">>

\* parseMachineFeatures: the names of the bits set in the flags, in bit order
parseMachineFeatures(dataView) ==
    LET flags == getUint32(dataView, 0)
        pushed[n \in 0..Len(FEATURE_NAMES)] ==
            IF n = 0 THEN <<>>
            ELSE IF Bit(flags, n - 1) THEN Append(pushed[n - 1], FEATURE_NAMES[n])
            ELSE pushed[n - 1]
    IN  pushed[Len(FEATURE_NAMES)]

\* parseResistanceRange: both reads are made before the object exists
parseResistanceRange(dataView) ==
    [min |-> getInt16(dataView, 0), max |-> getInt16(dataView, 2)]

\* Array.prototype.includes
Includes(array, x) == \E i \in DOMAIN array : array[i] = x

\* the features and characteristics setupBikeFeatures starts from
GattDefaults ==
    [features |->
        [hasSpeedMeasurement   |-> FALSE,
         hasCadenceMeasurement |-> FALSE,
         hasPowerMeasurement   |-> FALSE,
         hasResistanceControl  |-> FALSE,
         minResistance |-> 1, maxResistance |-> 20,
         supportedFeatures |-> <<>>],
     characteristics |->
        [controlPoint     |-> FALSE,
         indoorBikeData   |-> FALSE,
         powerMeasurement |-> FALSE,
         cscMeasurement   |-> FALSE]]

\* "Read machine features": getCharacteristic, readValue or getUint32 throws
\* into the block's catch, else the names and the three flags are assigned
ReadMachineFeatures(bike, s) ==
    IF bike.feature = Unreadable \/ ~InBounds(bike.feature, 0, 4) THEN s
    ELSE LET supported == parseMachineFeatures(bike.feature)
         IN  [s EXCEPT
                !.features.supportedFeatures = supported,
                !.features.hasCadenceMeasurement = Includes(supported, "Cadence"),
                !.features.hasPowerMeasurement = Includes(supported, "Power Measurement"),
                !.features.hasResistanceControl = Includes(supported, "Resistance Level")]

\* a block that assigned minResistance before it read the maximum
ReadResistanceRangeMinFirst(bike, s) ==
    IF bike.range = Unreadable \/ ~InBounds(bike.range, 0, 2) THEN s
    ELSE IF ~InBounds(bike.range, 2, 2)
    THEN [s EXCEPT !.features.minResistance = getInt16(bike.range, 0)]
    ELSE [s EXCEPT !.features.minResistance = getInt16(bike.range, 0),
                   !.features.maxResistance = getInt16(bike.range, 2)]

\* "Read resistance range": getCharacteristic, readValue or either getInt16
\* throws into the block's catch, else both bounds are assigned
ReadResistanceRange(bike, s) ==
    IF bike.range = Unreadable
          \/ ~InBounds(bike.range, 0, 2) \/ ~InBounds(bike.range, 2, 2)
    THEN s
    ELSE LET range == parseResistanceRange(bike.range)
         IN  [s EXCEPT !.features.minResistance = range.min,
                       !.features.maxResistance = range.max]

\* "Set up control point"
SetUpControlPoint(bike, s) ==
    IF bike.cp THEN [s EXCEPT !.characteristics.controlPoint = TRUE] ELSE s

\* "Set up indoor bike data"
SetUpIndoorBikeData(bike, s) ==
    IF bike.ibd
    THEN [s EXCEPT !.characteristics.indoorBikeData = TRUE,
                   !.features.hasSpeedMeasurement = TRUE]
    ELSE s

\* the Cycling Power service and its measurement characteristic
SetUpPowerMeasurement(bike, s) ==
    IF bike.pw
    THEN [s EXCEPT !.characteristics.powerMeasurement = TRUE,
                   !.features.hasPowerMeasurement = TRUE]
    ELSE s

\* the Cycling Speed and Cadence service and its measurement characteristic
SetUpCscMeasurement(bike, s) ==
    IF bike.csc
    THEN [s EXCEPT !.characteristics.cscMeasurement = TRUE,
                   !.features.hasSpeedMeasurement = TRUE,
                   !.features.hasCadenceMeasurement = TRUE]
    ELSE s

\* a setupBikeFeatures whose feature block ran after the service probes
GattProbesFeaturesLast(bike) ==
    ReadMachineFeatures(bike,
      SetUpCscMeasurement(bike,
        SetUpPowerMeasurement(bike,
          SetUpIndoorBikeData(bike,
            SetUpControlPoint(bike,
              ReadResistanceRange(bike, GattDefaults))))))

\* the six blocks of setupBikeFeatures in the order of the code
GattProbes(bike) ==
    SetUpCscMeasurement(bike,
      SetUpPowerMeasurement(bike,
        SetUpIndoorBikeData(bike,
          SetUpControlPoint(bike,
            ReadResistanceRange(bike,
              ReadMachineFeatures(bike, GattDefaults))))))

\* setupBikeFeatures of the GATT lib: without the Fitness Machine service
\* the outer catch throws a new Error to the caller
setupBikeFeaturesGatt(bike) ==
    IF ~bike.fitness
    THEN [threw |-> TRUE, features |-> NULL, characteristics |-> NULL]
    ELSE [threw |-> FALSE,
          features |-> GattProbes(bike).features,
          characteristics |-> GattProbes(bike).characteristics]

-----------------------------------------------------------------------------
(* The bitfield training page: connection and commands *)

\* startNotifications and stopNotifications of the GATT lib collect the
\* calls on these characteristics and await them together
GattNotifyNames == {"indoorBikeData", "powerMeasurement", "cscMeasurement"}

\* the characteristics the ?.properties.notify tests of the GATT lib let
\* through: the ones that were found
GattNotifiableOf(characteristics) ==
    IF characteristics = NULL THEN {}
    ELSE {name \in GattNotifyNames : characteristics[name]}

\* stopNotifications of the GATT lib: every call is made before Promise.all
\* awaits any of them
GattStopCalled(notifiable) == notifiable

\* the machine feature values of the bikes: unreadable, two bytes only, no
\* bit, bit 1, bit 7, bit 14, the three of them, bits 0..14, and bit 25 alone
FeatureValues ==
    {Unreadable, <<130, 64>>, <<0, 0, 0, 0>>, <<2, 0, 0, 0>>, <<128, 0, 0, 0>>,
     <<0, 64, 0, 0>>, <<130, 64, 0, 0>>, <<255, 127, 0, 0>>, <<0, 0, 0, 2>>}

\* the resistance range values of the bikes: unreadable, two bytes only,
\* 1..32, 0..300, -5..10 and 5..0
RangeValues ==
    {Unreadable, <<3, 0>>, <<1, 0, 32, 0>>, <<0, 0, 44, 1>>,
     <<251, 255, 10, 0>>, <<5, 0, 0, 0>>}

\* What a bike answers to the probes of the GATT lib: the Fitness Machine
\* service, the values of the feature and range characteristics, whether the
\* control point, the indoor bike data, the cycling power and the speed and
\* cadence characteristics are found, and whether the control point found has
\* a write property.  Every subset of the probes fails on some bike, and every
\* pair of values is answered by some bike.
GattBikes ==
    {bike \in [fitness : {TRUE}, feature : FeatureValues, range : RangeValues,
               cp : BOOLEAN, cpWrite : BOOLEAN, ibd : BOOLEAN, pw : BOOLEAN,
               csc : BOOLEAN] :
        /\ bike.cpWrite => bike.cp
        /\ \/ /\ bike.feature \in {Unreadable, <<128, 0, 0, 0>>}
              /\ bike.range \in {Unreadable, <<1, 0, 32, 0>>}
           \/ bike.cp = bike.ibd /\ ~bike.pw /\ ~bike.csc}
    \cup
    [fitness : {FALSE}, feature : {Unreadable}, range : {Unreadable},
     cp : {FALSE}, cpWrite : {FALSE}, ibd : {FALSE}, pw : {FALSE}, csc : {FALSE}]

\* the bikes the commands are followed on: resistance control with the ranges
\* 0..300, -5..10 and the default, with and without a control point, a bike
\* without the feature characteristic and one without the service
CommandBikes ==
    {bike \in GattBikes :
        /\ ~bike.pw /\ ~bike.csc
        /\ bike.cpWrite = bike.cp
        /\ bike.ibd = bike.fitness
        /\ \/ /\ bike.feature = <<128, 0, 0, 0>> /\ bike.cp
              /\ bike.range \in {Unreadable, <<0, 0, 44, 1>>, <<251, 255, 10, 0>>}
           \/ bike.feature = <<128, 0, 0, 0>> /\ ~bike.cp /\ bike.range = Unreadable
           \/ bike.feature = Unreadable /\ bike.range = Unreadable}

\* TrainingPage.handleConnect of the bitfield page with the hook's connect and
\* the GATT lib, run to its end: requestDevice or gatt.connect may reject,
\* setupBikeFeatures may throw, any of the startNotifications calls may
\* reject; a change of bikeCharacteristics runs the cleanup effect on the
\* earlier ones.
TrainingConnectA(bikes) ==
    /\ page = "trainingA"
    /\ ~device
    /\ \E outcome \in ConnectOutcomes, bike \in bikes :
          LET setup == setupBikeFeaturesGatt(bike)
              notifiable == GattNotifiableOf(setup.characteristics)
              requestOk == outcome # "requestDevice rejects"
              gattOk == outcome # "gatt.connect rejects"
              notifyOk == outcome # "startNotifications rejects"
          IN  IF ~requestOk
              THEN /\ connectionError' = "Connection failed"
                   /\ UNCHANGED <<device, bikeFeatures, bikeCharacteristics,
                                  resistanceLevel, closure, listening, link,
                                  intervals>>
              ELSE IF ~gattOk
              THEN /\ device' = TRUE
                   /\ connectionError' = "Connection failed"
                   /\ UNCHANGED <<bikeFeatures, bikeCharacteristics,
                                  resistanceLevel, closure, listening, link,
                                  intervals>>
              ELSE IF setup.threw
              THEN /\ notifyOk
                   /\ device' = TRUE
                   /\ peripheral' = bike
                   /\ connectionError' = "Failed to setup bike features"
                   /\ UNCHANGED <<bikeFeatures, bikeCharacteristics, resistanceLevel,
                                  closure, listening, started, leaked,
                                  intervals>>
              ELSE /\ device' = TRUE
                   /\ peripheral' = bike
                   /\ bikeFeatures' = setup.features
                   /\ bikeCharacteristics' = setup.characteristics
                   /\ intervals' = intervals \ {workoutTimerRef}
                   /\ resistanceLevel' =
                         IF setup.features.maxResistance # 0
                         THEN setup.features.minResistance ELSE resistanceLevel
                   /\ leaked' = leaked \cup
                         (started \ GattStopCalled(GattNotifiableOf(bikeCharacteristics)))
                   /\ IF notifyOk
                      THEN /\ started' = notifiable
                           /\ listening' = setup.characteristics.indoorBikeData
                           /\ closure' =
                                 IF setup.characteristics.indoorBikeData
                                 THEN [metrics |-> metrics,
                                       isWorkoutActive |-> isWorkoutActive]
                                 ELSE closure
                           /\ UNCHANGED connectionError
                      ELSE /\ \E rejecting \in SUBSET notifiable :
                                 /\ rejecting # {}
                                 /\ started' = notifiable \ rejecting
                           /\ connectionError' = "Connection failed"
                           /\ UNCHANGED <<closure, listening>>
    /\ UNCHANGED <<page, flagsWord, hook, controlPage, now, telemetry, isWorkoutActive,
                   workoutTimerRef, lastCommandRef, written,
                   pendingWrites, pendingAdjusts>>

\* the first handleConnect that reaches a bike: to any of the bikes
NegotiateA ==
    /\ peripheral = NULL
    /\ TrainingConnectA(GattBikes)

\* a later handleConnect: to one of the bikes the commands are followed on
ReconnectA ==
    /\ peripheral # NULL
    /\ TrainingConnectA(CommandBikes)

\* handleConnect to one of the bikes the commands are followed on
HandleConnectA ==
    /\ TrainingConnectA(CommandBikes)
    /\ UNCHANGED controlPage

\* gattserverdisconnected on the bitfield page: the hook's handleDisconnect
DisconnectA ==
    /\ page = "trainingA"
    /\ device
    /\ device' = FALSE
    /\ listening' = FALSE
    /\ UNCHANGED <<page, flagsWord, hook, link, controlPage, now, telemetry, control,
                   bikeFeatures, bikeCharacteristics, closure>>

\* the bitfield page is left: the cleanup effect clears the interval and
\* calls stopNotifications on the characteristics it holds
UnmountA ==
    /\ page = "trainingA"
    /\ page' = "none"
    /\ intervals' = IF workoutTimerRef # NoTimer
                    THEN intervals \ {workoutTimerRef} ELSE intervals
    /\ leaked' = leaked \cup
          (started \ GattStopCalled(GattNotifiableOf(bikeCharacteristics)))
    /\ started' = {}
    /\ listening' = FALSE
    /\ UNCHANGED <<flagsWord, hook, peripheral, controlPage, now, telemetry,
                   isWorkoutActive, resistanceLevel, connectionError,
                   workoutTimerRef, lastCommandRef, written, pendingWrites,
                   pendingAdjusts, device, bikeFeatures, bikeCharacteristics,
                   closure>>

\* the levels the slider of the bitfield page is moved to: its two ends
SliderLevelsA(features) == {features.minResistance, features.maxResistance}

\* the levels the resistance controls of the bitfield page pass to
\* debouncedAdjustLevel: the slider's value, Math.max(resistanceLevel - 1, min)
\* of the down button and Math.min(resistanceLevel + 1, max) of the up button
\* while they are enabled
RequestedLevelsA(features) ==
    SliderLevelsA(features)
        \cup (IF resistanceLevel > features.minResistance
              THEN {IF resistanceLevel - 1 > features.minResistance
                    THEN resistanceLevel - 1 ELSE features.minResistance}
              ELSE {})
        \cup (IF resistanceLevel < features.maxResistance
              THEN {IF resistanceLevel + 1 < features.maxResistance
                    THEN resistanceLevel + 1 ELSE features.maxResistance}
              ELSE {})

\* a resistance control of the bitfield page calls debouncedAdjustLevel: the
\* card is rendered when hasResistanceControl is set and its controls are
\* enabled while device is set
AdjustRequestA ==
    /\ page = "trainingA"
    /\ device
    /\ bikeFeatures # NULL
    /\ bikeFeatures.hasResistanceControl
    /\ \E newLevel \in RequestedLevelsA(bikeFeatures) :
          LET call == [newLevel |-> newLevel,
                       due |-> now + DEBOUNCE_WAIT,
                       armed |-> /\ bikeCharacteristics # NULL
                                 /\ bikeCharacteristics.controlPoint
                                 /\ bikeFeatures.hasResistanceControl]
          IN  \/ /\ Cardinality(pendingAdjusts) < MaxPending
                 /\ pendingAdjusts' = pendingAdjusts \cup {call}
              \/ \E old \in pendingAdjusts :
                    pendingAdjusts' = (pendingAdjusts \ {old}) \cup {call}
    /\ UNCHANGED <<page, flagsWord, hook, link, controlPage, now, telemetry, session,
                   isWorkoutActive, resistanceLevel, connectionError,
                   workoutTimerRef, intervals, lastCommandRef, written,
                   pendingWrites>>

\* debouncedAdjustLevel of the bitfield page up to its await: the guard, then
\* new Uint8Array([0x04, newLevel]) is handed to writeValue
AdjustLevelBodyA(call) ==
    IF ~call.armed
    THEN UNCHANGED <<written, pendingWrites>>
    ELSE /\ written' = Append(written, <<ToUint8(4), ToUint8(call.newLevel)>>)
         /\ pendingWrites' = Append(pendingWrites,
                                    [kind |-> "level", newLevel |-> call.newLevel])

\* the wait of a debounced call of the bitfield page has run out
AdjustFireA ==
    /\ page = "trainingA"
    /\ \E call \in pendingAdjusts :
          /\ call.due <= now
          /\ Len(written) < MaxWrites
          /\ Len(pendingWrites) < MaxPending
          /\ pendingAdjusts' = pendingAdjusts \ {call}
          /\ AdjustLevelBodyA(call)
    /\ UNCHANGED <<page, flagsWord, hook, link, controlPage, now, telemetry, session,
                   isWorkoutActive, resistanceLevel, connectionError,
                   workoutTimerRef, intervals, lastCommandRef>>

\* toggleWorkout of the bitfield page up to its await: the byte is chosen by
\* the isWorkoutActive of the render that was clicked
ToggleWorkoutClickA ==
    /\ page = "trainingA"
    /\ bikeCharacteristics # NULL
    /\ bikeCharacteristics.controlPoint
    /\ Len(written) < MaxWrites
    /\ Len(pendingWrites) < MaxPending
    /\ written' = Append(written, <<ToUint8(IF isWorkoutActive THEN 0 ELSE 1)>>)
    /\ pendingWrites' = Append(pendingWrites,
                               [kind |-> "toggle", active |-> isWorkoutActive])
    /\ UNCHANGED <<page, flagsWord, hook, link, controlPage, now, telemetry, session,
                   isWorkoutActive, resistanceLevel, connectionError,
                   workoutTimerRef, intervals, lastCommandRef, pendingAdjusts>>

\* the oldest writeValue promise of the bitfield page settles
WriteSettlesA ==
    /\ page = "trainingA"
    /\ pendingWrites # <<>>
    /\ \E ok \in (IF device THEN BOOLEAN ELSE {FALSE}) :
          IF Head(pendingWrites).kind = "toggle"
          THEN ToggleWorkoutSettle(Head(pendingWrites), ok)
          ELSE AdjustLevelSettle(Head(pendingWrites), ok)
    /\ pendingWrites' = Tail(pendingWrites)
    /\ UNCHANGED <<page, flagsWord, hook, link, controlPage, now, telemetry, session,
                   lastCommandRef, written, pendingAdjusts>>

\* time passes while debounced calls of the bitfield page wait; a call whose
\* wait has run out fires before more time passes
TickA ==
    /\ page = "trainingA"
    /\ pendingAdjusts # {}
    /\ \A call \in pendingAdjusts : call.due > now
    /\ Tick

-----------------------------------------------------------------------------
(* The control page *)

\* What a bike answers to the control page: whether the Fitness Machine
\* service, the control point and the indoor bike data characteristic are
\* found, and the write properties of the control point.
ControlBikes ==
    {[fitness |-> TRUE,  cp |-> TRUE,  write |-> TRUE,  writeWithoutResponse |-> FALSE, ibd |-> TRUE],
     [fitness |-> TRUE,  cp |-> TRUE,  write |-> FALSE, writeWithoutResponse |-> TRUE,  ibd |-> TRUE],
     [fitness |-> TRUE,  cp |-> TRUE,  write |-> FALSE, writeWithoutResponse |-> FALSE, ibd |-> TRUE],
     [fitness |-> TRUE,  cp |-> TRUE,  write |-> TRUE,  writeWithoutResponse |-> FALSE, ibd |-> FALSE],
     [fitness |-> TRUE,  cp |-> FALSE, write |-> FALSE, writeWithoutResponse |-> FALSE, ibd |-> TRUE],
     [fitness |-> FALSE, cp |-> FALSE, write |-> FALSE, writeWithoutResponse |-> FALSE, ibd |-> FALSE]}

\* a re-render of the control page: the disabled props are computed from
\* controlCharRef.current as it is then
Render(ref) == ref # NULL

\* the Connect button: handleConnect up to the await of requestDevice
ControlConnectClick ==
    /\ page = "control"
    /\ ~device
    /\ connectPc = "idle"
    /\ connectPc' = "requestDevice"
    /\ connectionError' = NoError
    /\ rendered' = IF connectionError # NoError THEN Render(controlCharRef)
                   ELSE rendered
    /\ UNCHANGED <<page, flagsWord, hook, link, now, telemetry, session,
                   isWorkoutActive, resistanceLevel, workoutTimerRef, intervals,
                   lastCommandRef, written, pendingWrites, pendingAdjusts,
                   connected, controlCharRef, level, isRunning>>

\* the first click on the Connect button since the page was mounted
ControlFirstConnect ==
    /\ peripheral = NULL
    /\ ControlConnectClick

\* scanForDevice after its await: the chooser returned a bike (the disconnect
\* listener is added, setDevice) or rejected (setConnectionError, return null)
ControlScanSettles ==
    /\ page = "control"
    /\ connectPc = "requestDevice"
    /\ \/ \E bike \in ControlBikes :
             /\ peripheral' = bike
             /\ device' = TRUE
             /\ connectPc' = "gatt.connect"
             /\ UNCHANGED connectionError
       \/ /\ connectionError' = "User cancelled the requestDevice() chooser."
          /\ connectPc' = "idle"
          /\ UNCHANGED <<peripheral, device>>
    /\ rendered' = Render(controlCharRef)
    /\ UNCHANGED <<page, flagsWord, hook, started, leaked, now, telemetry, control_but_error,
                   bikeFeatures, bikeCharacteristics, closure, listening,
                   connected, controlCharRef, level, isRunning>>

\* handleConnect after the await of gatt.connect
ControlGattSettles ==
    /\ page = "control"
    /\ connectPc = "gatt.connect"
    /\ \/ /\ connected' = TRUE
          /\ connectPc' = "controlPoint"
          /\ UNCHANGED <<connectionError, rendered>>
       \/ /\ connectionError' = "Connection attempt failed."
          /\ connectPc' = "idle"
          /\ rendered' = Render(controlCharRef)
          /\ UNCHANGED connected
    /\ UNCHANGED <<page, flagsWord, hook, link, now, telemetry, control_but_error, session,
                   controlCharRef, level, isRunning>>

\* setupBikeCharacteristics up to controlCharRef.current = controlPoint: the
\* service and the control point are found, or a lookup rejects and
\* handleConnect reports that the setup failed
ControlPointSettles ==
    /\ page = "control"
    /\ connectPc = "controlPoint"
    /\ IF connected /\ peripheral.fitness /\ peripheral.cp
       THEN /\ controlCharRef' =
                  [write |-> peripheral.write,
                   writeWithoutResponse |-> peripheral.writeWithoutResponse]
            /\ connectPc' = "indoorBikeData"
            /\ UNCHANGED <<connectionError, rendered>>
       ELSE /\ connectionError' = "Failed to set up bike characteristics"
            /\ connectPc' = "idle"
            /\ rendered' = Render(controlCharRef)
            /\ UNCHANGED controlCharRef
    /\ UNCHANGED <<page, flagsWord, hook, link, now, telemetry, control_but_error, session,
                   connected, level, isRunning>>

\* setupBikeCharacteristics from there: the indoor bike data characteristic
\* is found, startNotifications resolves and the listener is added, or one
\* of them rejects
ControlBikeDataSettles ==
    /\ page = "control"
    /\ connectPc = "indoorBikeData"
    /\ connectPc' = "idle"
    /\ \/ /\ connected /\ peripheral.ibd
          /\ started' = started \cup {"indoorBikeData"}
          /\ listening' = TRUE
          /\ UNCHANGED <<connectionError, rendered>>
       \/ /\ connectionError' = "Failed to set up bike characteristics"
          /\ rendered' = Render(controlCharRef)
          /\ UNCHANGED <<started, listening>>
    /\ UNCHANGED <<page, flagsWord, hook, peripheral, leaked, now, telemetry,
                   control_but_error, device, bikeFeatures, bikeCharacteristics,
                   closure, connected, controlCharRef, level, isRunning>>

\* gattserverdisconnected on the control page: handleDisconnect
ControlDisconnect ==
    /\ page = "control"
    /\ connected
    /\ connected' = FALSE
    /\ device' = FALSE
    /\ controlCharRef' = NULL
    /\ connectionError' = "Device disconnected"
    /\ listening' = FALSE
    /\ rendered' = FALSE
    /\ UNCHANGED <<page, flagsWord, hook, link, now, telemetry, control_but_error,
                   bikeFeatures, bikeCharacteristics, closure,
                   connectPc, level, isRunning>>

\* the preset select: setSelectedPreset re-renders the page
SelectPreset ==
    /\ page = "control"
    /\ rendered # Render(controlCharRef)
    /\ rendered' = Render(controlCharRef)
    /\ UNCHANGED <<page, flagsWord, hook, link, now, telemetry, control, session,
                   connectPc, connected, controlCharRef, level, isRunning>>

\* the levels the control page's slider is moved to
ControlSliderLevels == {1, 2, 20}

\* resistance controls without Math.min, Math.max and the disabled props of
\* the two buttons
ControlRequestedLevelsUnclamped ==
    ControlSliderLevels \cup {level + 1, level - 1}

\* the levels the control page passes to debouncedAdjustLevel: the slider's
\* value, Math.min(level + 1, 20) of the up button and Math.max(level - 1, 1)
\* of the down button while they are enabled
ControlRequestedLevels ==
    ControlSliderLevels
        \cup (IF level < 20 THEN {IF level + 1 < 20 THEN level + 1 ELSE 20} ELSE {})
        \cup (IF level > 1 THEN {IF level - 1 > 1 THEN level - 1 ELSE 1} ELSE {})

\* a resistance control of the control page calls debouncedAdjustLevel
ControlAdjustRequest ==
    /\ page = "control"
    /\ rendered
    /\ \E newLevel \in ControlRequestedLevels :
          LET call == [newLevel |-> newLevel, due |-> now + DEBOUNCE_WAIT]
          IN  \/ /\ Cardinality(pendingAdjusts) < MaxPending
                 /\ pendingAdjusts' = pendingAdjusts \cup {call}
              \/ \E old \in pendingAdjusts :
                    pendingAdjusts' = (pendingAdjusts \ {old}) \cup {call}
    /\ UNCHANGED <<page, flagsWord, hook, link, controlPage, now, telemetry, session,
                   isWorkoutActive, resistanceLevel, connectionError,
                   workoutTimerRef, intervals, lastCommandRef, written,
                   pendingWrites>>

\* the command table of the debug page: the name and the bytes of each entry;
\* a resistance entry is keyed by the level its name gives
DEBUG_CONTROL_COMMANDS ==
    {[name |-> "Start (Format 1)",    level |-> 0,  data |-> <<1>>],
     [name |-> "Start (Format 2)",    level |-> 0,  data |-> <<7>>],
     [name |-> "Start (Format 3)",    level |-> 0,  data |-> <<1, 1>>],
     [name |-> "Stop (Format 1)",     level |-> 0,  data |-> <<0>>],
     [name |-> "Stop (Format 2)",     level |-> 0,  data |-> <<8>>],
     [name |-> "Stop (Format 3)",     level |-> 0,  data |-> <<1, 0>>],
     [name |-> "Resistance Level 1",  level |-> 1,  data |-> <<4, 1>>],
     [name |-> "Resistance Level 5",  level |-> 5,  data |-> <<4, 5>>],
     [name |-> "Resistance Level 10", level |-> 10, data |-> <<4, 10>>],
     [name |-> "Request Control",     level |-> 0,  data |-> <<0, 1>>],
     [name |-> "Reset",               level |-> 0,  data |-> <<11>>]}

\* debouncedAdjustLevel had it built the array as [newLevel, 0x04]
ControlAdjustLevelBodyLevelFirst(call) ==
    IF controlCharRef = NULL
    THEN UNCHANGED <<connectionError, written, pendingWrites, rendered>>
    ELSE IF controlCharRef.write \/ controlCharRef.writeWithoutResponse
    THEN /\ written' = Append(written, <<ToUint8(call.newLevel), ToUint8(4)>>)
         /\ pendingWrites' = Append(pendingWrites,
                                    [kind |-> "level", newLevel |-> call.newLevel])
         /\ UNCHANGED <<connectionError, rendered>>
    ELSE /\ connectionError' = "Failed to adjust resistance level"
         /\ rendered' = Render(controlCharRef)
         /\ UNCHANGED <<written, pendingWrites>>

\* ControlPage.debouncedAdjustLevel up to its await: the two bytes are built
\* and handed to writeValue or writeValueWithoutResponse; a control point
\* with neither property throws into the inner catch block
ControlAdjustLevelBody(call) ==
    IF controlCharRef = NULL
    THEN UNCHANGED <<connectionError, written, pendingWrites, rendered>>
    ELSE IF controlCharRef.write \/ controlCharRef.writeWithoutResponse
    THEN /\ written' = Append(written, <<ToUint8(4), ToUint8(call.newLevel)>>)
         /\ pendingWrites' = Append(pendingWrites,
                                    [kind |-> "level", newLevel |-> call.newLevel])
         /\ UNCHANGED <<connectionError, rendered>>
    ELSE /\ connectionError' = "Failed to adjust resistance level"
         /\ rendered' = Render(controlCharRef)
         /\ UNCHANGED <<written, pendingWrites>>

\* the wait of a debounced call of the control page has run out
ControlAdjustFire ==
    /\ page = "control"
    /\ \E call \in pendingAdjusts :
          /\ call.due <= now
          /\ Len(written) < MaxWrites
          /\ Len(pendingWrites) < MaxPending
          /\ pendingAdjusts' = pendingAdjusts \ {call}
          /\ ControlAdjustLevelBody(call)
    /\ UNCHANGED <<page, flagsWord, hook, link, now, telemetry, session,
                   isWorkoutActive, resistanceLevel, workoutTimerRef, intervals,
                   lastCommandRef, connectPc, connected, controlCharRef, level,
                   isRunning>>

\* a toggleStart that chose the byte as isRunning ? 0x01 : 0x00
ToggleStartClickInverted ==
    /\ page = "control"
    /\ rendered
    /\ controlCharRef # NULL
    /\ Len(written) < MaxWrites
    /\ Len(pendingWrites) < MaxPending
    /\ written' = Append(written, <<ToUint8(IF isRunning THEN 1 ELSE 0)>>)
    /\ pendingWrites' = Append(pendingWrites,
                               [kind |-> "toggle", active |-> isRunning])
    /\ UNCHANGED <<page, flagsWord, hook, link, controlPage, now, telemetry, session,
                   isWorkoutActive, resistanceLevel, connectionError,
                   workoutTimerRef, intervals, lastCommandRef, pendingAdjusts>>

\* ControlPage.toggleStart up to its await
ToggleStartClick ==
    /\ page = "control"
    /\ rendered
    /\ controlCharRef # NULL
    /\ Len(written) < MaxWrites
    /\ Len(pendingWrites) < MaxPending
    /\ written' = Append(written, <<ToUint8(IF isRunning THEN 0 ELSE 1)>>)
    /\ pendingWrites' = Append(pendingWrites,
                               [kind |-> "toggle", active |-> isRunning])
    /\ UNCHANGED <<page, flagsWord, hook, link, controlPage, now, telemetry, session,
                   isWorkoutActive, resistanceLevel, connectionError,
                   workoutTimerRef, intervals, lastCommandRef, pendingAdjusts>>

\* a settle step that wrote the packet again when its write rejected
ControlWriteSettlesRetrying ==
    /\ page = "control"
    /\ pendingWrites # <<>>
    /\ \E ok \in (IF connected THEN BOOLEAN ELSE {FALSE}) :
          LET call == Head(pendingWrites)
          IN  IF ~ok
              THEN /\ connectionError' =
                         IF call.kind = "toggle" THEN "Write failed"
                         ELSE "Failed to adjust resistance level"
                   /\ written' = Append(written, written[Len(written)])
                   /\ pendingWrites' = Append(Tail(pendingWrites), call)
                   /\ UNCHANGED <<level, isRunning>>
              ELSE /\ IF call.kind = "toggle"
                      THEN /\ isRunning' = ~call.active
                           /\ UNCHANGED <<level, connectionError>>
                      ELSE /\ level' = call.newLevel
                           /\ UNCHANGED <<isRunning, connectionError>>
                   /\ pendingWrites' = Tail(pendingWrites)
                   /\ UNCHANGED written
    /\ rendered' = Render(controlCharRef)
    /\ UNCHANGED <<page, flagsWord, hook, link, now, telemetry, session,
                   isWorkoutActive, resistanceLevel, workoutTimerRef, intervals,
                   lastCommandRef, pendingAdjusts,
                   connectPc, connected, controlCharRef>>

\* the oldest write of the control page settles: setIsRunning(!isRunning) or
\* setLevel(newLevel) when it resolved, setConnectionError when it rejected;
\* a write on a connection that has ended rejects
ControlWriteSettles ==
    /\ page = "control"
    /\ pendingWrites # <<>>
    /\ \E ok \in (IF connected THEN BOOLEAN ELSE {FALSE}) :
          LET call == Head(pendingWrites)
          IN  IF ~ok
              THEN /\ connectionError' =
                         IF call.kind = "toggle" THEN "Write failed"
                         ELSE "Failed to adjust resistance level"
                   /\ UNCHANGED <<level, isRunning>>
              ELSE IF call.kind = "toggle"
              THEN /\ isRunning' = ~call.active
                   /\ UNCHANGED <<level, connectionError>>
              ELSE /\ level' = call.newLevel
                   /\ UNCHANGED <<isRunning, connectionError>>
    /\ pendingWrites' = Tail(pendingWrites)
    /\ rendered' = Render(controlCharRef)
    /\ UNCHANGED <<page, flagsWord, hook, link, now, telemetry, session,
                   isWorkoutActive, resistanceLevel, workoutTimerRef, intervals,
                   lastCommandRef, written, pendingAdjusts,
                   connectPc, connected, controlCharRef>>

\* time passes while debounced calls of the control page wait; a call whose
\* wait has run out fires before more time passes
ControlTick ==
    /\ page = "control"
    /\ pendingAdjusts # {}
    /\ \A call \in pendingAdjusts : call.due > now
    /\ Tick

\* the control page is left: the cleanup effect removes the disconnect
\* listener, disconnects and clears controlCharRef; stopNotifications is
\* called nowhere on this page
ControlUnmount ==
    /\ page = "control"
    /\ page' = "none"
    /\ connected' = FALSE
    /\ controlCharRef' = NULL
    /\ listening' = FALSE
    /\ leaked' = leaked \cup started
    /\ started' = {}
    /\ UNCHANGED <<flagsWord, hook, peripheral, now, telemetry, control, device,
                   bikeFeatures, bikeCharacteristics, closure,
                   connectPc, rendered, level, isRunning>>

-----------------------------------------------------------------------------
(* Specifications *)

\* a page that has just been mounted, with no connection
InitMounted ==
    /\ flagsWord = 0
    /\ now = T0
    /\ lastFrame = NoFrame
    /\ metrics = InitialMetrics
    /\ metricsHistory = <<>>
    /\ lastParsedData = NULL
    /\ closure = [metrics |-> InitialMetrics, isWorkoutActive |-> FALSE]
    /\ caught = FALSE
    /\ escaped = FALSE
    /\ device = FALSE
    /\ bikeFeatures = NULL
    /\ bikeCharacteristics = NULL
    /\ InitControl
    /\ InitLink
    /\ InitControlPage
    /\ InitHook

\* The training page from its mount, and the debug page from the moment its
\* setupCharacteristics has registered handleBikeData.
Init ==
    /\ page \in {"training", "debug"}
    /\ listening = (page = "debug")
    /\ InitMounted

\* the notification side: connections, notifications, start and stop
Next ==
    \/ HandleConnect
    \/ Disconnect
    \/ NotifyTraining
    \/ NotifyDebug
    \/ ToggleWorkoutClick
    \/ WriteSettles

Spec == Init /\ [][Next]_vars

InitControlSide ==
    /\ page = "training"
    /\ listening = FALSE
    /\ InitMounted

\* the resistance side: connections, resistance requests, time
NextControl ==
    \/ HandleConnect
    \/ Disconnect
    \/ AdjustRequest
    \/ AdjustFire
    \/ Tick

SpecControl == InitControlSide /\ [][NextControl]_vars

\* the control page as it is mounted
InitControlPageMounted ==
    /\ page = "control"
    /\ listening = FALSE
    /\ InitMounted

\* the control page: one connection, start and stop, resistance, time
NextControlPage ==
    \/ ControlConnectClick
    \/ ControlScanSettles
    \/ ControlGattSettles
    \/ ControlPointSettles
    \/ ControlBikeDataSettles
    \/ SelectPreset
    \/ ControlAdjustRequest
    \/ ControlAdjustFire
    \/ ToggleStartClick
    \/ ControlWriteSettles
    \/ ControlTick

SpecControlPage == InitControlPageMounted /\ [][NextControlPage]_vars

\* the control page: connection and leaving
NextControlTeardown ==
    \/ ControlConnectClick
    \/ ControlScanSettles
    \/ ControlGattSettles
    \/ ControlPointSettles
    \/ ControlBikeDataSettles
    \/ ControlDisconnect
    \/ ControlUnmount

SpecControlTeardown == InitControlPageMounted /\ [][NextControlTeardown]_vars

\* the bitfield training page as it is mounted
InitTrainingAMounted ==
    /\ page = "trainingA"
    /\ flagsWord = 0
    /\ now = T0
    /\ lastFrame = NoFrame
    /\ metrics = InitialMetricsA
    /\ metricsHistory = <<>>
    /\ lastParsedData = NULL
    /\ closure = [metrics |-> InitialMetricsA, isWorkoutActive |-> FALSE]
    /\ listening = FALSE
    /\ caught = FALSE
    /\ escaped = FALSE
    /\ device = FALSE
    /\ bikeFeatures = NULL
    /\ bikeCharacteristics = NULL
    /\ InitControl
    /\ InitLink
    /\ InitControlPage
    /\ InitHook

\* the bitfield training page: one connection, start and stop, resistance, time
NextCommandsA ==
    \/ HandleConnectA
    \/ AdjustRequestA
    \/ AdjustFireA
    \/ ToggleWorkoutClickA
    \/ WriteSettlesA
    \/ TickA

SpecCommandsA == InitTrainingAMounted /\ [][NextCommandsA]_vars

\* the control page or the bitfield training page as it is mounted
InitStartStop ==
    \/ InitControlPageMounted
    \/ InitTrainingAMounted

\* the two pages: one connection, start and stop
NextStartStop ==
    \/ ControlConnectClick
    \/ ControlScanSettles
    \/ ControlGattSettles
    \/ ControlPointSettles
    \/ ControlBikeDataSettles
    \/ SelectPreset
    \/ ToggleStartClick
    \/ ControlWriteSettles
    \/ HandleConnectA
    \/ ToggleWorkoutClickA
    \/ WriteSettlesA

SpecStartStop == InitStartStop /\ [][NextStartStop]_vars

\* either training page as it is mounted
InitSession ==
    \/ InitControlSide
    \/ InitTrainingAMounted

\* the training pages: connections, disconnections and leaving
NextSession ==
    \/ Negotiate
    \/ Disconnect
    \/ Unmount
    \/ NegotiateA
    \/ ReconnectA
    \/ DisconnectA
    \/ UnmountA

SpecSession == InitSession /\ [][NextSession]_vars

\* the control page or the training page as it is mounted
InitCommands ==
    \/ InitControlPageMounted
    \/ InitControlSide

\* the two pages: connections, start and stop, resistance, time
NextCommands ==
    \/ ControlConnectClick
    \/ ControlScanSettles
    \/ ControlGattSettles
    \/ ControlPointSettles
    \/ ControlBikeDataSettles
    \/ SelectPreset
    \/ ControlAdjustRequest
    \/ ControlAdjustFire
    \/ ToggleStartClick
    \/ ControlWriteSettles
    \/ ControlTick
    \/ HandleConnect
    \/ AdjustRequest
    \/ AdjustFire
    \/ ToggleWorkoutClick
    \/ WriteSettles
    \/ TrainingTick

SpecCommands == InitCommands /\ [][NextCommands]_vars

\* the two pages: the first connection of the control page and the
\* connections of the training page, their commands and the disconnect event
NextDisconnects ==
    \/ ControlFirstConnect
    \/ ControlScanSettles
    \/ ControlGattSettles
    \/ ControlPointSettles
    \/ ControlBikeDataSettles
    \/ ControlDisconnect
    \/ SelectPreset
    \/ ControlAdjustRequest
    \/ ControlAdjustFire
    \/ ToggleStartClick
    \/ ControlWriteSettles
    \/ ControlTick
    \/ HandleConnect
    \/ Disconnect
    \/ ToggleWorkoutClick
    \/ WriteSettles

SpecDisconnects == InitCommands /\ [][NextDisconnects]_vars

\* the training page: connections, start and stop clicks that need not wait
\* for one another, and leaving
NextTimer ==
    \/ Negotiate
    \/ Disconnect
    \/ ToggleWorkoutRapidClick
    \/ WriteSettles
    \/ Unmount

SpecTimer == InitControlSide /\ [][NextTimer]_vars

\* the training pages: a connection, then a bike that streams
NextHistory ==
    \/ HandleConnect
    \/ HandleConnectA
    \/ StreamTraining
    \/ StreamTrainingA

SpecHistory == InitSession /\ [][NextHistory]_vars

\* the monitor page as it is mounted, before a bike whose frames carry the
\* flags word is chosen
InitMonitorMounted ==
    /\ page = "monitor"
    /\ flagsWord \in FlagWords
    /\ now = T0
    /\ lastFrame = NoFrame
    /\ metrics = InitialMetricsA
    /\ metricsHistory = <<>>
    /\ lastParsedData = NULL
    /\ closure = [metrics |-> InitialMetricsA, isWorkoutActive |-> FALSE]
    /\ listening = FALSE
    /\ caught = FALSE
    /\ escaped = FALSE
    /\ device = FALSE
    /\ bikeFeatures = NULL
    /\ bikeCharacteristics = NULL
    /\ InitControl
    /\ InitLink
    /\ InitControlPage
    /\ InitHook

\* the monitor page: connection attempts, notifications and the disconnect
\* event
NextHook ==
    \/ MonitorConnectClick
    \/ HookRequestSettles
    \/ HookGattSettles
    \/ MonitorSetupSettles
    \/ MonitorDisconnect
    \/ NotifyMonitor

SpecHook == InitMonitorMounted /\ [][NextHook]_vars

-----------------------------------------------------------------------------
(* Claims about Dialect B telemetry (checked under Spec) *)

\* the byte at an offset of the last frame, less the 1 the bike adds
CorrectedByte(offset) == lastFrame[offset + 1] - 1

\* two corrected bytes as hundreds and units
CorrectedPair(offset) == CorrectedByte(offset) * 100 + CorrectedByte(offset + 1)

\* the training page has handled a frame its decoder decodes
DecodedB == page = "training" /\ Handled /\ Len(lastFrame) >= FULL_PACKET_LENGTH

\* C5: every Dialect B frame that is decoded has 1 subtracted from each of the
\* payload bytes at offsets 2..18 before they are combined: time is
\* ((day*24 + hour)*60 + minute)*60 + second, speed, distance and power are
\* (b0*100 + b1)/10, rpm, calories and heart rate are b0*100 + b1, and level
\* is the last byte minus 1 (values in hundredths).
C5_MinusOneBeforeCombination ==
    DecodedB =>
        /\ metrics.time = 100 * (((CorrectedByte(2) * 24 + CorrectedByte(3)) * 60
                                    + CorrectedByte(4)) * 60 + CorrectedByte(5))
        /\ metrics.speed = 10 * CorrectedPair(6)
        /\ metrics.rpm = 100 * CorrectedPair(8)
        /\ metrics.distance = 10 * CorrectedPair(10)
        /\ metrics.calories = 100 * CorrectedPair(12)
        /\ metrics.heartRate = 100 * CorrectedPair(14)
        /\ metrics.power = 10 * CorrectedPair(16)
        /\ metrics.level = 100 * CorrectedByte(18)

\* C5 witness: the ride frame (0 d 1 h 30 min 45 s, 25.5 km/h, 80 rpm,
\* 12.3 km, 321 kcal, 140 bpm, 150.0 W, level 7) has been decoded
C5_Witness ==
    /\ DecodedB
    /\ lastFrame = EncodeB(1, FULL_PACKET_LENGTH)
    /\ metrics.time = 544500 /\ metrics.speed = 2550 /\ metrics.rpm = 8000
    /\ metrics.distance = 1230 /\ metrics.calories = 32100
    /\ metrics.heartRate = 14000 /\ metrics.power = 15000 /\ metrics.level = 700

\* the standard-length frame whose day, hour, minute and second bytes are 2
\* and whose every other field byte is 1
FrameTime2222 == EncodeB(2, FULL_PACKET_LENGTH)

\* every numeric field of the decoded record other than the time is 0
OtherFieldsZero ==
    /\ metrics.speed = 0 /\ metrics.rpm = 0 /\ metrics.distance = 0
    /\ metrics.calories = 0 /\ metrics.heartRate = 0 /\ metrics.power = 0
    /\ metrics.level = 0

\* C6 as stated: decoding the standard-length frame with time bytes 2, 2, 2, 2
\* and every other field byte 1 yields elapsed time 0 and every other numeric
\* field 0.
C6_Time2222IsZero ==
    (DecodedB /\ lastFrame = FrameTime2222) =>
        (metrics.time = 0 /\ OtherFieldsZero)

\* C6 amended: decoding that frame yields elapsed time 90061 s (1 day, 1 hour,
\* 1 minute and 1 second) and every other numeric field 0.
C6_Time2222Is90061 ==
    (DecodedB /\ lastFrame = FrameTime2222) =>
        (metrics.time = 100 * 90061 /\ OtherFieldsZero)

\* C6 witness: the frame with time bytes 2, 2, 2, 2 has been decoded
C6_Witness ==
    DecodedB /\ lastFrame = FrameTime2222 /\ metrics.time = 9006100

\* the measurement fields of a Dialect B record
MeasurementFieldsB ==
    {"time", "speed", "rpm", "distance", "calories", "heartRate", "power", "level"}

\* the total lengths the decoders name: the full packet of the lib, the 30
\* and 41 byte messages of the debug page
NamedLengthsB == {FULL_PACKET_LENGTH, 30, 41}

\* C7: a frame whose total length is not one of the fixed lengths decodes to
\* a record that holds the raw flags and the raw-byte dump and no measurement
\* field.
C7_OtherLengthsOnlyFlagsAndDump ==
    (page = "training" /\ Handled /\ Len(lastFrame) \notin NamedLengthsB) =>
        /\ DOMAIN parseIndoorBikeData(lastFrame) \cap MeasurementFieldsB = {}
        /\ DOMAIN metrics \cap MeasurementFieldsB \subseteq DOMAIN closure.metrics
        /\ {"flags", "rawBytes"} \subseteq DOMAIN parseIndoorBikeData(lastFrame)

\* C8: no exception leaves the notification handler, whatever the frame, and
\* malformed frames do not stop the stream: every full packet handled,
\* whatever came before it, is decoded and is the record now in metrics and
\* at the end of the history.
C8_NoThrowAndStreamContinues ==
    /\ ~escaped
    /\ DecodedB =>
          /\ metrics.timestamp = now
          /\ metrics.speed = 10 * CorrectedPair(6)
          /\ metrics.rpm = 100 * CorrectedPair(8)
          /\ metrics.power = 10 * CorrectedPair(16)
          /\ metricsHistory # <<>>
          /\ metricsHistory[Len(metricsHistory)] = metrics

\* C8 witness: a frame too short to decode was handled, then a full packet,
\* and handling the full packet threw into the handler's catch block
C8_Witness ==
    /\ DecodedB
    /\ caught
    /\ Len(metricsHistory) = 2
    /\ "rpm" \notin DOMAIN metricsHistory[1]
    /\ metrics.rpm = 8000

-----------------------------------------------------------------------------
(* Claims about Dialect B commands *)

RECURSIVE SumBytes(_)
\* the sum of the bytes of a packet
SumBytes(bytes) ==
    IF bytes = <<>> THEN 0 ELSE Head(bytes) + SumBytes(Tail(bytes))

\* the packet starts with the sync byte and ends with the sum of the bytes
\* before it modulo 256
Framed(packet) ==
    /\ Len(packet) >= 2
    /\ packet[1] = 240
    /\ packet[Len(packet)] = SumBytes(SubSeq(packet, 1, Len(packet) - 1)) % 256

\* C9: each of PING, INIT_A0, STATUS, INIT_A3, START, STOP and READ starts
\* with 0xF0 and ends with the sum of its preceding bytes modulo 256; PING is
\* F0 A0 01 01 92, START is F0 A5 01 01 02 99, STOP is F0 A5 01 01 04 9B; so
\* is every packet the start/stop button has written.
C9_CommandPacketsFramed ==
    /\ {"PING", "INIT_A0", "STATUS", "INIT_A3", "START", "STOP", "READ"}
          \subseteq DOMAIN CONTROL_COMMANDS
    /\ \A name \in DOMAIN CONTROL_COMMANDS : Framed(CONTROL_COMMANDS[name])
    /\ CONTROL_COMMANDS.PING = <<240, 160, 1, 1, 146>>
    /\ CONTROL_COMMANDS.START = <<240, 165, 1, 1, 2, 153>>
    /\ CONTROL_COMMANDS.STOP = <<240, 165, 1, 1, 4, 155>>
    /\ \A i \in DOMAIN written : Framed(written[i])

\* C9 witness: the button has written START and then STOP
C9_Witness ==
    /\ Len(written) = 2
    /\ written[1] = <<240, 165, 1, 1, 2, 153>>
    /\ written[2] = <<240, 165, 1, 1, 4, 155>>

\* a framed packet with the level among its payload bytes
SetResistancePacket(packet, L) ==
    /\ Framed(packet)
    /\ \E k \in 2 .. (Len(packet) - 1) : packet[k] = L

\* C10 (checked under SpecControl): once debouncedAdjustLevel has passed its
\* guards for a level L, the packet it got from setResistanceLevel(L) has
\* been written: it starts with 0xF0, carries L and ends with the sum of its
\* other bytes modulo 256.
C10_SetResistancePacketComputed ==
    lastCommandRef # 0 =>
        \E i \in DOMAIN written, L \in 0 .. 255 :
            SetResistancePacket(written[i], L)

-----------------------------------------------------------------------------
(* Claims about Dialect A commands (checked under SpecControlPage) *)

\* the packet handed to the control point by the i-th write still awaited
PacketOfPending(i) == written[Len(written) - Len(pendingWrites) + i]

\* the resistance level a SetResistance packet carries: the byte at offset 1
ReadBackLevel(packet) == packet[2]

\* the range of levels the control page offers: the slider's min and max
CONTROL_MIN_LEVEL == 1
CONTROL_MAX_LEVEL == 20

\* C11: for Dialect A, SetResistance(L) is exactly the two bytes 0x04, L, and
\* the level read back from the packet is L for every L of the range: each
\* adjustment of the control page hands over the packet <<4, L>> of the level
\* L it was called with, L is within 1..20, every two-byte packet it has written
\* is of that form, and the resistance entries of the debug page's table are
\* <<4, L>> for the level in their name.
C11_SetResistanceIsOpcodeAndLevel ==
    /\ \A i \in 1..Len(pendingWrites) :
          pendingWrites[i].kind = "level" =>
             /\ pendingWrites[i].newLevel \in CONTROL_MIN_LEVEL..CONTROL_MAX_LEVEL
             /\ PacketOfPending(i) = <<4, pendingWrites[i].newLevel>>
             /\ ReadBackLevel(PacketOfPending(i)) = pendingWrites[i].newLevel
    /\ \A i \in 1..Len(written) :
          Len(written[i]) = 2 =>
             /\ written[i][1] = 4
             /\ ReadBackLevel(written[i]) \in CONTROL_MIN_LEVEL..CONTROL_MAX_LEVEL
    /\ level \in CONTROL_MIN_LEVEL..CONTROL_MAX_LEVEL
    /\ \A entry \in DEBUG_CONTROL_COMMANDS :
          entry.level # 0 =>
             /\ entry.data = <<4, entry.level>>
             /\ ReadBackLevel(entry.data) = entry.level

\* C11 witness: the control page has written SetResistance(20), the write
\* resolved and the page shows level 20, and a SetResistance(1) is awaited
C11_Witness ==
    /\ page = "control"
    /\ level = 20
    /\ Len(written) = 2
    /\ written[1] = <<4, 20>>
    /\ Len(pendingWrites) = 1
    /\ pendingWrites[1] = [kind |-> "level", newLevel |-> 1]
    /\ PacketOfPending(1) = <<4, 1>>

\* the levels one byte holds
ByteLevels == 0..255

\* C12: encoding SetResistance with a level outside 0..255 fails with an
\* encoding error and no bytes are written; the level is never wrapped modulo
\* 256 or truncated into the packet: every SetResistance packet a page has
\* handed to writeValue was built for a level within 0..255, and its level
\* byte is that level.
C12_OutOfRangeLevelWritesNothing ==
    \A i \in 1..Len(pendingWrites) :
        pendingWrites[i].kind = "level" =>
           /\ pendingWrites[i].newLevel \in ByteLevels
           /\ ReadBackLevel(PacketOfPending(i)) = pendingWrites[i].newLevel

\* the running flag of the page: isRunning on the control page,
\* isWorkoutActive on the training page
RunningFlag == IF page = "control" THEN isRunning ELSE isWorkoutActive

\* a step hands a one-byte packet to writeValue
WritesOneByte ==
    /\ Len(written') = Len(written) + 1
    /\ Len(written'[Len(written')]) = 1

\* C13: for Dialect A, Start is the single byte 0x01 and Stop the single byte
\* 0x00, and a toggle writes Start exactly when the running flag is false at
\* the click and Stop exactly when it is true: every step that hands over a
\* one-byte packet hands over <<1>> from a state whose running flag is false
\* and <<0>> from a state whose running flag is true.
C13_ToggleWritesStartOrStop ==
    [][WritesOneByte =>
          written'[Len(written')] = IF RunningFlag THEN <<0>> ELSE <<1>>]_vars

\* C13 witness: the control page wrote Start while it was not running, the
\* write resolved, and it wrote Stop while it was running
C13_Witness ==
    /\ page = "control"
    /\ isRunning
    /\ written = <<(<<1>>), (<<0>>)>>
    /\ Len(pendingWrites) = 1
    /\ pendingWrites[1].kind = "toggle"

-----------------------------------------------------------------------------
(* Claims about capability negotiation (checked under SpecSession) *)

\* a step is a handleConnect whose requestDevice resolved, and the bike last
\* handed to setupBikeFeatures is without the Fitness Machine service
NegotiatesWithoutService ==
    /\ Negotiate \/ NegotiateA \/ ReconnectA
    /\ device'
    /\ peripheral' # NULL
    /\ ~peripheral'.fitness

\* C14: when the Fitness Machine service cannot be obtained negotiation is
\* fatal: setupBikeFeatures surfaces a setup error to its caller and returns
\* no descriptor, so the caller installs no capabilities and starts no
\* notifications for that attempt: a handleConnect on a bike without the
\* service ends with connectionError set and leaves bikeFeatures,
\* bikeCharacteristics and the subscriptions as they were.
C14_MissingServiceIsFatal ==
    [][NegotiatesWithoutService =>
          /\ connectionError' # NoError
          /\ UNCHANGED <<bikeFeatures, bikeCharacteristics, started>>]_vars

\* the optional probes of the GATT lib
GattProbeNames ==
    {"feature", "range", "controlPoint", "indoorBikeData", "powerMeasurement",
     "cscMeasurement"}

\* the optional probes of the iConsole lib
ProbeNames ==
    {"controlPoint", "indoorBikeData", "powerMeasurement", "heartRateMeasurement"}

\* the probes of the GATT lib that fail on a bike
GattFailed(bike) ==
    {name \in GattProbeNames :
        \/ name = "feature" /\ (bike.feature = Unreadable \/ Len(bike.feature) < 4)
        \/ name = "range" /\ (bike.range = Unreadable \/ Len(bike.range) < 4)
        \/ name = "controlPoint" /\ ~bike.cp
        \/ name = "indoorBikeData" /\ ~bike.ibd
        \/ name = "powerMeasurement" /\ ~bike.pw
        \/ name = "cscMeasurement" /\ ~bike.csc}

\* the probes of the iConsole lib that fail on a bike
Failed(bike) ==
    {name \in ProbeNames :
        \/ name = "controlPoint" /\ ~bike.cp
        \/ name = "indoorBikeData" /\ ~bike.ibd
        \/ name = "powerMeasurement" /\ ~bike.pw
        \/ name = "heartRateMeasurement" /\ ~bike.hr}

\* the bike of the GATT lib on which every probe but one fails
GattOnly(bike, name) ==
    [fitness |-> bike.fitness,
     feature |-> IF name = "feature" THEN bike.feature ELSE Unreadable,
     range   |-> IF name = "range" THEN bike.range ELSE Unreadable,
     cp      |-> bike.cp /\ name = "controlPoint",
     cpWrite |-> bike.cpWrite /\ name = "controlPoint",
     ibd     |-> bike.ibd /\ name = "indoorBikeData",
     pw      |-> bike.pw /\ name = "powerMeasurement",
     csc     |-> bike.csc /\ name = "cscMeasurement"]

\* the bike of the iConsole lib on which every probe but one fails
Only(bike, name) ==
    [fitness |-> bike.fitness,
     cp      |-> bike.cp /\ name = "controlPoint",
     cpWrite |-> bike.cpWrite /\ name = "controlPoint",
     ibd     |-> bike.ibd /\ name = "indoorBikeData",
     pw      |-> bike.pw /\ name = "powerMeasurement",
     hr      |-> bike.hr /\ name = "heartRateMeasurement"]

\* the boolean flags of a descriptor
FlagNames ==
    {"hasSpeedMeasurement", "hasCadenceMeasurement", "hasPowerMeasurement",
     "hasResistanceControl"}

\* the bitfield page holds the descriptor negotiated with the peripheral
NegotiatedA ==
    /\ page = "trainingA"
    /\ peripheral # NULL
    /\ peripheral.fitness
    /\ bikeFeatures # NULL

\* the iConsole page holds the descriptor negotiated with the peripheral
Negotiated ==
    /\ page = "training"
    /\ peripheral # NULL
    /\ peripheral.fitness
    /\ bikeFeatures # NULL

\* the GATT lib: the descriptor is what the probes that succeed yield one by one
GattProbesIndependent ==
    LET alone(name) == setupBikeFeaturesGatt(GattOnly(peripheral, name))
        succeeded == GattProbeNames \ GattFailed(peripheral)
    IN  /\ ~setupBikeFeaturesGatt(peripheral).threw
        /\ \A flag \in FlagNames :
              bikeFeatures[flag] = \E name \in succeeded : alone(name).features[flag]
        /\ bikeFeatures.supportedFeatures = alone("feature").features.supportedFeatures
        /\ bikeFeatures.minResistance = alone("range").features.minResistance
        /\ bikeFeatures.maxResistance = alone("range").features.maxResistance
        /\ \A name \in GattProbeNames \ {"feature", "range"} :
              /\ bikeCharacteristics[name] = alone(name).characteristics[name]
              /\ name \in GattFailed(peripheral) => ~bikeCharacteristics[name]
        /\ "feature" \in GattFailed(peripheral) => bikeFeatures.supportedFeatures = <<>>
        /\ "range" \in GattFailed(peripheral) =>
              bikeFeatures.minResistance = 1 /\ bikeFeatures.maxResistance = 20
        /\ succeeded = {} =>
              /\ \A flag \in FlagNames : ~bikeFeatures[flag]
              /\ bikeFeatures.minResistance = 1 /\ bikeFeatures.maxResistance = 20

\* the iConsole lib: the descriptor is what the probes that succeed yield one
\* by one
ProbesIndependent ==
    LET alone(name) == setupBikeFeatures(Only(peripheral, name))
        succeeded == ProbeNames \ Failed(peripheral)
    IN  /\ \A flag \in FlagNames :
              bikeFeatures[flag] = \E name \in succeeded : alone(name).features[flag]
        /\ bikeFeatures.minResistance = 1 /\ bikeFeatures.maxResistance = 20
        /\ \A name \in ProbeNames :
              /\ bikeCharacteristics[name] = alone(name).characteristics[name]
              /\ name \in Failed(peripheral) => ~bikeCharacteristics[name]
        /\ succeeded = {} => \A flag \in FlagNames : ~bikeFeatures[flag]

\* C15: the optional probes are independent: whatever subset of them fails,
\* negotiation raises no error, the characteristic of a failed probe stays
\* null and a flag only failed probes would set stays false, the outcome of
\* each other probe is what that probe yields alone, and when all of them
\* fail every flag is false and the range is 1..20.
C15_OptionalProbesIndependent ==
    /\ NegotiatedA => GattProbesIndependent
    /\ Negotiated => ProbesIndependent

\* C15 witness: the GATT lib negotiated with a bike on which every optional
\* probe fails
C15_Witness ==
    /\ NegotiatedA
    /\ GattFailed(peripheral) = GattProbeNames
    /\ connectionError = NoError

\* C16: after a successful negotiation, hasResistanceControl implies that
\* characteristics.controlPoint is non-null and supports a write operation
C16_ResistanceControlHasWritableControlPoint ==
    (Negotiated \/ NegotiatedA) /\ bikeFeatures.hasResistanceControl =>
        /\ bikeCharacteristics.controlPoint
        /\ peripheral.cpWrite

\* a signed 16-bit value from its low and high byte
SignedLE(low, high) ==
    IF low + 256 * high >= 32768 THEN low + 256 * high - 65536 ELSE low + 256 * high

\* C17: minResistance and maxResistance are the two little-endian signed 16-bit
\* values at offsets 0 and 2 of the range characteristic when it can be read and
\* parsed, and otherwise both are the defaults 1 and 20; never one of each.
C17_RangeBothOrNeither ==
    NegotiatedA =>
        IF "range" \in GattFailed(peripheral)
        THEN /\ bikeFeatures.minResistance = 1
             /\ bikeFeatures.maxResistance = 20
        ELSE /\ bikeFeatures.minResistance =
                    SignedLE(peripheral.range[1], peripheral.range[2])
             /\ bikeFeatures.maxResistance =
                    SignedLE(peripheral.range[3], peripheral.range[4])

\* C17 witness: the range -5..10 was read from the bytes FB FF 0A 00
C17_Witness ==
    /\ NegotiatedA
    /\ peripheral.range = <<251, 255, 10, 0>>
    /\ bikeFeatures.minResistance = -5
    /\ bikeFeatures.maxResistance = 10

\* bit n of the little-endian value of the first two bytes
FeatureBit(value, n) == ((value[1] + 256 * value[2]) \div (2 ^ n)) % 2 = 1

\* C18: a readable machine feature value is decoded as a little-endian 32-bit
\* bitmap with one named feature per bit, bit 0 Average Speed through bit 14
\* Power Measurement; after the feature read cadence is set iff bit 1 is set,
\* power iff bit 14 and resistance control iff bit 7; the later probes only
\* turn a flag on.
C18_FeatureBitmapRefinesFlags ==
    NegotiatedA /\ "feature" \notin GattFailed(peripheral) =>
        LET value == peripheral.feature
            refined == ReadMachineFeatures(peripheral, GattDefaults).features
        IN  /\ \A n \in 0..14 :
                  Includes(bikeFeatures.supportedFeatures, FEATURE_NAMES[n + 1])
                      <=> FeatureBit(value, n)
            /\ Len(bikeFeatures.supportedFeatures) =
                  Cardinality({n \in 0..14 : FeatureBit(value, n)})
            /\ \A i, j \in DOMAIN bikeFeatures.supportedFeatures :
                  i < j =>
                     \E m, n \in 1..15 :
                        /\ m < n
                        /\ bikeFeatures.supportedFeatures[i] = FEATURE_NAMES[m]
                        /\ bikeFeatures.supportedFeatures[j] = FEATURE_NAMES[n]
            /\ refined.hasCadenceMeasurement = FeatureBit(value, 1)
            /\ refined.hasPowerMeasurement = FeatureBit(value, 14)
            /\ refined.hasResistanceControl = FeatureBit(value, 7)
            /\ ~refined.hasSpeedMeasurement
            /\ \A flag \in FlagNames : refined[flag] => bikeFeatures[flag]
            /\ bikeFeatures.hasCadenceMeasurement =
                  (FeatureBit(value, 1) \/ peripheral.csc)
            /\ bikeFeatures.hasPowerMeasurement =
                  (FeatureBit(value, 14) \/ peripheral.pw)
            /\ bikeFeatures.hasResistanceControl = FeatureBit(value, 7)

\* C18 witness: the value 82 40 00 00 gave Cadence, Resistance Level and Power
\* Measurement on a bike without the power and the speed and cadence services
C18_Witness ==
    /\ NegotiatedA
    /\ peripheral.feature = <<130, 64, 0, 0>>
    /\ ~peripheral.pw /\ ~peripheral.csc
    /\ bikeFeatures.supportedFeatures =
          <<"Cadence", "Resistance Level", "Power Measurement">>
    /\ bikeFeatures.hasCadenceMeasurement
    /\ bikeFeatures.hasPowerMeasurement
    /\ bikeFeatures.hasResistanceControl

-----------------------------------------------------------------------------
(* Claims about subscriptions *)

\* C19 (checked under SpecControlTeardown): each notification-capable
\* characteristic is subscribed at most once per session and on teardown every
\* subscribed characteristic is unsubscribed: once the page is left, no
\* characteristic on which startNotifications was called is without a
\* stopNotifications call, and none is still held as subscribed.
C19_TeardownUnsubscribesAll ==
    page = "none" => leaked = {} /\ started = {}

\* a step runs a cleanup effect of a training page: the page is left, or a
\* connection replaces the characteristics the page holds
CleansUp ==
    \/ Unmount
    \/ UnmountA
    \/ /\ Negotiate \/ NegotiateA \/ ReconnectA
       /\ bikeCharacteristics' # bikeCharacteristics

-----------------------------------------------------------------------------
(* Claims about the control point reference *)

\* the control page's setupBikeCharacteristics has returned true for the
\* connection that is up: the listener it adds last is in place
SetupCompleted ==
    connected /\ listening

\* C28 (checked under SpecControlTeardown): on the control page
\* controlCharRef is non-null only while a device is connected and the
\* characteristic setup has completed successfully, in every interleaving of
\* the connect steps, the setup steps and the disconnect event. Stated for
\* the states in which no handleConnect is under way.
C28_ControlRefOnlyAfterSetup ==
    page = "control" /\ connectPc = "idle" /\ controlCharRef # NULL
        => SetupCompleted

\* C24 (checked under SpecDisconnects): the descriptor and the characteristic
\* references are discarded when the session ends: after a disconnect event
\* no start/stop or resistance command is written through the references of
\* the ended session, so no step taken while the page has no device hands a
\* packet to writeValue.
C24_NoWriteAfterDisconnect ==
    [][~device => written' = written]_vars

-----------------------------------------------------------------------------
(* Claims about writes and their failures *)

\* a step in which a page calls writeValue for a user command
IssuesCommand ==
    ToggleStartClick \/ ControlAdjustFire \/ ToggleWorkoutClick

\* a step in which a write settles on a page that has no device any more
SettlesAfterDisconnect ==
    (ControlWriteSettles \/ WriteSettles) /\ ~device

\* the messages the catch blocks around the writes set
WriteFailures ==
    {"Write failed", "Failed to adjust resistance level",
     "Failed to toggle workout"}

\* C22 (checked under SpecDisconnects): a command write in flight when the
\* device disconnects is reported as a write failure and is never re-issued
\* automatically: every user command causes at most one transport write,
\* including when it fails.  Packets reach writeValue only in the step of a
\* click or of a debounced call, one per step, a debounced call runs once,
\* and a write that settles after the disconnect sets a failure message and
\* writes nothing.
C22_FailedWriteReportedNotReissued ==
    [][/\ written' # written =>
             /\ IssuesCommand
             /\ Len(written') = Len(written) + 1
       /\ ControlAdjustFire =>
             Cardinality(pendingAdjusts') = Cardinality(pendingAdjusts) - 1
       /\ SettlesAfterDisconnect =>
             /\ connectionError' \in WriteFailures
             /\ Len(pendingWrites') = Len(pendingWrites) - 1]_vars

\* C22 witness: on the control page the one write that was issued was still
\* in flight at the disconnect and its failure has been reported since
C22_Witness ==
    /\ page = "control"
    /\ ~connected /\ peripheral # NULL
    /\ connectionError \in WriteFailures
    /\ Len(written) = 1
    /\ pendingWrites = <<>>

\* the running flag or the displayed level of the mounted page changes
ShownStateChanges ==
    \/ isRunning' # isRunning
    \/ level' # level
    \/ isWorkoutActive' # isWorkoutActive
    \/ resistanceLevel' # resistanceLevel

\* a write settles as resolved: the flag or the level it was issued for takes
\* the requested value, the other is kept and no message is set
SettlesResolved ==
    /\ ControlWriteSettles \/ WriteSettles
    /\ connectionError' = connectionError
    /\ LET call == Head(pendingWrites)
       IN  IF call.kind = "toggle"
           THEN /\ IF page = "control" THEN isRunning' = ~call.active
                   ELSE isWorkoutActive' = ~call.active
                /\ level' = level /\ resistanceLevel' = resistanceLevel
           ELSE /\ IF page = "control" THEN level' = call.newLevel
                   ELSE resistanceLevel' = call.newLevel
                /\ isRunning' = isRunning /\ isWorkoutActive' = isWorkoutActive

\* a write settles as rejected, or a debounced call that holds a control
\* point ends before it has handed a packet to the transport
WriteFails ==
    \/ /\ ControlWriteSettles \/ WriteSettles
       /\ ~SettlesResolved
    \/ /\ ControlAdjustFire
       /\ controlCharRef # NULL
       /\ written' = written
    \/ /\ AdjustFire
       /\ lastCommandRef' # lastCommandRef
       /\ written' = written

\* C26 (checked under SpecCommands): the running flag and the displayed
\* resistance level change only after the corresponding transport write has
\* succeeded: apart from the level handleConnect sets from the negotiated
\* range, they change only in the step in which the write issued for them
\* resolves; when a write fails both are kept and an error message is set,
\* and a command without a control characteristic changes neither.
C26_StateFollowsSuccessfulWrite ==
    [][/\ ShownStateChanges /\ ~HandleConnect => SettlesResolved
       /\ WriteFails =>
             /\ ~ShownStateChanges
             /\ connectionError' \in WriteFailures]_vars

\* C26 witness: on the control page the start write resolved and the stop
\* write that followed rejected: the page still shows the bike as running
C26_Witness ==
    /\ page = "control"
    /\ connected
    /\ written = <<<<1>>, <<0>>>>
    /\ pendingWrites = <<>>
    /\ isRunning
    /\ connectionError = "Write failed"

-----------------------------------------------------------------------------
(* Claims about the resistance level *)

\* the levels the mounted page may ask of the bike: 1..20 on the control
\* page, minResistance..maxResistance of the negotiated capabilities on the
\* training page
LevelRange ==
    IF page = "control" THEN CONTROL_MIN_LEVEL..CONTROL_MAX_LEVEL
    ELSE IF bikeFeatures = NULL THEN {}
    ELSE bikeFeatures.minResistance..bikeFeatures.maxResistance

\* C23 (checked under SpecCommands): for every sequence of slider and up/down
\* button actions, each resistance level passed to a transport write lies
\* within [minResistance, maxResistance] of the capabilities negotiated for
\* the session, and within 1..20 on the control page: the level of every
\* debounced call that waits, of every level write that is awaited and of
\* every SetResistance packet handed to the transport is in the range.
C23_WrittenLevelsWithinRange ==
    /\ \A call \in pendingAdjusts : call.newLevel \in LevelRange
    /\ \A i \in 1..Len(pendingWrites) :
          pendingWrites[i].kind = "level" =>
             pendingWrites[i].newLevel \in LevelRange
    /\ \A i \in 1..Len(written) :
          Len(written[i]) = 2 /\ written[i][1] = 4 =>
             ReadBackLevel(written[i]) \in LevelRange

\* C23 witness: the control page shows level 20 after it wrote it, and the
\* down button has asked for 19
C23_Witness ==
    /\ page = "control"
    /\ level = CONTROL_MAX_LEVEL
    /\ written = <<<<4, 20>>>>
    /\ pendingWrites = <<>>
    /\ \E call \in pendingAdjusts : call.newLevel = CONTROL_MAX_LEVEL - 1

\* the debounced call that ends a burst runs on the training page: no other
\* call waits, the call holds a control point and the bike is connected
FinalCallFires ==
    /\ AdjustFire
    /\ device
    /\ pendingAdjusts' = {}
    /\ \E call \in pendingAdjusts : call.armed

\* C25 (checked under SpecControl): rapid resistance changes are coalesced
\* without losing the final one: the level of the last request of a burst is
\* eventually written to the bike.  The debounced call of the last request is
\* the only place where its level can be written, so the step in which it
\* runs hands one packet to the transport.
C25_FinalRequestIsWritten ==
    [][FinalCallFires => Len(written') = Len(written) + 1]_vars

\* the SetResistance packets among those handed to the control page's
\* control point: the two-byte ones
LevelWrites == {i \in 1..Len(written) : Len(written[i]) = 2}

\* C21 (checked under SpecControlPage): for every sequence and timing of
\* resistance requests, at least 500 ms elapse between any two
\* resistance-level writes issued to the transport.  The page is mounted at
\* T0 and every write is issued between T0 and now, so once two level packets
\* have been written at least 500 ms have passed since T0.
C21_LevelWritesHalfSecondApart ==
    page = "control" /\ Cardinality(LevelWrites) >= 2
        => now - T0 >= MIN_COMMAND_INTERVAL

-----------------------------------------------------------------------------
(* Claims about the workout timer *)

\* C27 (checked under SpecTimer): on the training page at most one workout
\* timer interval exists at any time and none is running while the workout is
\* not active, in every interleaving of clicks on the Start/Stop button with
\* the completion of the writes they issue.
C27_AtMostOneWorkoutTimer ==
    page = "training" =>
        /\ Cardinality(intervals) <= 1
        /\ ~isWorkoutActive => intervals = {}

-----------------------------------------------------------------------------
(* Claims about the history *)

\* MAX_HISTORY_POINTS of the mounted training page
HistoryCap ==
    IF page = "trainingA" THEN MAX_HISTORY_POINTS_A ELSE MAX_HISTORY_POINTS

\* the notifications the streaming bike has sent
Received == (now - T0) \div NotifyPeriod

\* C30 (checked under SpecHistory): metricsHistory holds at most
\* MAX_HISTORY_POINTS entries (300 on the training page) and they are the
\* most recently received metrics in arrival order: its length is the number
\* of notifications received, capped at MAX_HISTORY_POINTS, its entries carry
\* the arrival times of the last notifications, one period apart and
\* ascending, and its last entry is the metrics set by the last notification.
C30_HistoryKeepsMostRecent ==
    page \in {"training", "trainingA"} =>
        /\ Len(metricsHistory) <= HistoryCap
        /\ Len(metricsHistory) =
              IF Received < HistoryCap THEN Received ELSE HistoryCap
        /\ \A i \in 1..Len(metricsHistory) :
              metricsHistory[i].timestamp =
                 now - (Len(metricsHistory) - i) * NotifyPeriod
        /\ metricsHistory # <<>> =>
              metricsHistory[Len(metricsHistory)] = metrics

\* C30 witness: the training page has received 302 notifications and holds
\* 300 entries, the oldest of them the third that arrived
C30_Witness ==
    /\ page = "training"
    /\ Received = MAX_HISTORY_POINTS + 2
    /\ Len(metricsHistory) = MAX_HISTORY_POINTS
    /\ metricsHistory[1].timestamp = T0 + 3 * NotifyPeriod

-----------------------------------------------------------------------------
(* Claims about useBluetoothDevice *)

\* a step in which connect leaves through its catch block
AttemptFails ==
    /\ HookRequestSettles \/ HookGattSettles
    /\ hookPc' = "idle"

\* C29 (checked under SpecHook): in useBluetoothDevice, whenever a connect
\* attempt has failed or the device has disconnected, device is null, error
\* is set and isConnecting is false, so that the Connect button
\* (disabled = !!device || isConnecting) is enabled again: every step in
\* which an attempt fails or the disconnect event is handled ends in such a
\* state.
C29_FailureReenablesConnect ==
    [][AttemptFails \/ MonitorDisconnect =>
          /\ ~device'
          /\ error' # NoError
          /\ ~isConnecting']_vars

====
